---- MODULE Spec2Model ----
(***************************************************************************)
(* Model of the Temporal workflows of RelAI                                *)
(* (src/temporal_workflows/workflows.py) and of the activities they call   *)
(* (src/temporal_workflows/activities.py).                                 *)
(*                                                                         *)
(* One TaskLifecycleWorkflow instance is modelled as a state machine whose *)
(* control states are the await points of run / _monitor_task_progress.    *)
(* Between two await points the workflow code runs atomically (Temporal's  *)
(* cooperative event loop); signal handlers run as separate atomic steps   *)
(* while the run coroutine is suspended on a timer or an activity.         *)
(***************************************************************************)
EXTENDS Integers, Sequences, FiniteSets, TLC

\* ----------------------------------------------------------------- bounds
\* number of 1-hour monitoring timers one instance may start in the model
MaxTimers == 2
\* number of signals delivered to one instance in the model
MaxSignals == 2
\* attempts observed for an activity call whose retry policy is unlimited
MaxObservedAttempts == 2

\* number of start_periodic_cleanup_workflow calls made in the model
MaxCalls == 3
\* number of interval timers one PeriodicCleanupWorkflow run may start
MaxCleanupTimers == 2

\* number of activity executions of one worker process in the model
MaxActivityRuns == 2
\* number of start and signal requests made to TemporalService
MaxRequests == 2
\* number of commands an instance issues while the service is exercised
MaxInstanceCommands == 3

\* ------------------------------------------------------------ value space
\* Python's None (also: key absent from a dict read with .get)
None == "None"
Users == {"alice", "bob"}
\* values task_data.get("assignedTo") can have: absent/None, empty, a user
AssigneeInputs == {None, ""} \cup Users
\* argument of the task_reassigned signal (any str)
NewUsers == {""} \cup Users
\* mutant: only None counts as "no value" (an `is not None` test)
NotNone(x) == x # None
\* Python truthiness of an Optional[str]
Truthy(x) == x \notin {None, ""}

VARIABLES
    task_data,      \* input of run: [assignedTo |-> ...]
    task_id,        \* self.task_id
    assigned_user,  \* self.assigned_user
    is_completed,   \* self.is_completed
    pc,             \* await point at which run is suspended, or "done"
    attempt,        \* attempt number of the activity call in flight
    result,         \* value returned by run (None while running)
    history,        \* commands issued by the workflow, in order
    signals,        \* signals delivered: a count per name, the last new_user
    create_result,  \* local of run (workflows.py:39)
    assign_result,  \* local of run (workflows.py:54)
    deadline_check, \* local of _monitor_task_progress (workflows.py:91)
    notified,       \* result of the last notification awaited by run
    relay,          \* a TaskRelayWorkflow instance
    onboarding,     \* a UserOnboardingWorkflow instance
    cleanup,        \* the PeriodicCleanupWorkflow instance of the singleton id
    registry,       \* the runtime: ids of the workflow executions running
    service,        \* TemporalService: its client, its calls in progress
    worker          \* the worker process running activities, and the store

\* the TaskLifecycleWorkflow instance
lifecycleVars == <<task_data, task_id, assigned_user, is_completed, pc,
                   attempt, result, history, signals, create_result,
                   assign_result, deadline_check, notified>>
\* everything else
otherVars == <<relay, onboarding, cleanup, registry, service, worker>>

vars == <<task_data, task_id, assigned_user, is_completed, pc, attempt,
          result, history, signals, create_result, assign_result,
          deadline_check, notified, relay, onboarding, cleanup, registry,
          service, worker>>

\* value of an instance variable when no such workflow has been started
NotStarted == [pc |-> "none"]
\* calls of TemporalService.start_periodic_cleanup_workflow
Calls == 1 .. MaxCalls
\* a call not made yet
CallIdle == [pc |-> "idle", value |-> "None", error |-> <<>>]
\* a start or signal request made to the service and what came of it:
\* outcome "returned" with the value, or "raised" with the exception's text
Request(op, wid, outcome, value, error) ==
    [op |-> op, workflow_id |-> wid, outcome |-> outcome, value |-> value,
     error |-> error]
NoRequest == Request("none", "None", "none", "None", <<>>)
\* the service before any call (service.py:24-25): no client yet;
\* lifecycle_id is the id of the TaskLifecycleWorkflow execution started
ServiceIdle ==
    [client |-> FALSE, calls |-> [c \in Calls |-> CallIdle],
     lifecycle_id |-> "None", requests |-> 0, last |-> NoRequest]
\* the specification at hand runs the TaskLifecycleWorkflow instance alone
OthersNotStarted ==
    /\ relay = NotStarted
    /\ onboarding = NotStarted
    /\ cleanup = NotStarted
    /\ registry = {}
    /\ service = ServiceIdle
    /\ worker = NotStarted

\* ---------------------------------------------------------------- events
Cmd(op, user, kind) == [op |-> op, user |-> user, kind |-> kind]
CreateTaskCmd == Cmd("CreateTask", None, "")
AssignTaskCmd(u) == Cmd("AssignTask", u, "")
NotifyCmd(u, kind) == Cmd("SendNotification", u, kind)
CheckDeadlineCmd == Cmd("CheckTaskDeadline", None, "")
TimerCmd == Cmd("Timer", None, "1h")
\* an activity call raised ActivityError into the workflow code
RaisedCmd(op) == Cmd("Raised", None, op)

\* number of commands op among the commands h
CountOp(h, op) == Cardinality({i \in DOMAIN h : h[i].op = op})
\* number of 1-hour timers started
Timers(h) == CountOp(h, "Timer")

\* ------------------------------------------------------------ run results
RunResult(success, tid, error) ==
    [success |-> success, task_id |-> tid, error |-> error]
Absent == "<absent>"
\* workflows.py:78
SuccessResult(tid) == RunResult(TRUE, tid, Absent)
\* workflows.py:47
CreateFailedResult == RunResult(FALSE, Absent, "Failed to create task")
\* workflows.py:82
ExceptionResult == RunResult(FALSE, Absent, "ActivityError")

\* ------------------------------------------------------------- activities
\* The workflow sees an activity only through the dict it returns (or the
\* ActivityError raised when the retry policy gives up).  Each operator below
\* computes that dict as the activity's code does, from the outcome of the
\* collaborator calls it makes.

\* activities.py:18-32.  raised: an exception inside the try block;
\* created: what task_service.create_task returned (the record, or None)
create_task_activity(raised, created) ==
    IF raised THEN [success |-> FALSE, task_id |-> Absent]
    ELSE [success |-> TRUE, task_id |-> created]

CreatedValues == {"task1", None}
CreateResults ==
    {create_task_activity(r, c) : r \in BOOLEAN, c \in CreatedValues}

\* activities.py:52-72.  updated: what task_service.assign_task returned
\* (the updated record, or None); the workflow reads success by truthiness
assign_task_activity(raised, updated) ==
    IF raised THEN [success |-> FALSE]
    ELSE [success |-> Truthy(updated)]

AssignResults ==
    {assign_task_activity(r, u) : r \in BOOLEAN, u \in {"task1", None}}

\* activities.py:125-163.  Time is counted in hours.
\*   raised   : an exception outside the inner try (store fault)
\*   found    : task_service.get_task_by_id returned a record
\*   handoff  : the record's estimatedHandoff: None, "invalid" (not ISO),
\*              "aware" (ISO with an offset: the subtraction from the naive
\*              utcnow() raises TypeError), "naive" (ISO without offset)
\*   remaining: deadline - now
HoursApproaching == 24

\* mutant: a task without estimatedHandoff is reported overdue
check_task_deadline_missing_is_overdue(raised, found, handoff, remaining) ==
    LET fail == [success |-> FALSE, has_deadline |-> FALSE,
                 is_approaching |-> FALSE, is_overdue |-> FALSE]
    IN  IF raised \/ ~found THEN fail
        ELSE IF handoff = None
             THEN [success |-> TRUE, has_deadline |-> FALSE,
                   is_approaching |-> FALSE, is_overdue |-> TRUE]
        ELSE IF handoff \in {"invalid", "aware"} THEN fail
        ELSE [success |-> TRUE, has_deadline |-> TRUE,
              is_approaching |->
                  (remaining <= HoursApproaching /\ remaining > 0),
              is_overdue |-> remaining <= 0]

check_task_deadline_activity(raised, found, handoff, remaining) ==
    LET fail == [success |-> FALSE, has_deadline |-> FALSE,
                 is_approaching |-> FALSE, is_overdue |-> FALSE]
    IN  IF raised \/ ~found THEN fail
        ELSE IF handoff = None
             THEN [success |-> TRUE, has_deadline |-> FALSE,
                   is_approaching |-> FALSE, is_overdue |-> FALSE]
        ELSE IF handoff \in {"invalid", "aware"} THEN fail
        ELSE [success |-> TRUE, has_deadline |-> TRUE,
              is_approaching |->
                  (remaining <= HoursApproaching /\ remaining > 0),
              is_overdue |-> remaining <= 0]

Handoffs == {None, "invalid", "aware", "naive"}
RemainingHours == {-1, 0, 12, 24, 25}
DeadlineResults ==
    {check_task_deadline_activity(r, f, h, d) :
        r \in BOOLEAN, f \in BOOLEAN, h \in Handoffs, d \in RemainingHours}

\* activities.py:110-122
send_notification_activity(raised, user_id) ==
    IF raised THEN [success |-> FALSE, user_id |-> Absent]
    ELSE [success |-> TRUE, user_id |-> user_id]

\* what a notification addressed to u can return
NotificationResults(u) == {send_notification_activity(b, u) : b \in BOOLEAN}

\* ------------------------------------------------------------ retry policy
\* workflows.py:32 RetryPolicy(maximum_attempts=3), passed to CreateTask and
\* AssignTask (workflows.py:43, 59)
LifecycleMaximumAttempts == 3
\* 0: no retry_policy argument (workflows.py:67-73, 91-95, 100-116), so
\* Temporal's default policy applies, which does not bound the attempts
Unlimited == 0
MaximumAttempts(p) ==
    IF p \in {"create", "assign"} THEN LifecycleMaximumAttempts ELSE Unlimited

ActivityPcs == {"create", "assign", "notify_assign", "check", "notify_deadline"}
MonitorPcs == {"sleep", "check", "notify_deadline"}
ActivityName(p) ==
    CASE p = "create" -> "CreateTask"
      [] p = "assign" -> "AssignTask"
      [] p = "check" -> "CheckTaskDeadline"
      [] OTHER -> "SendNotification"

\* ------------------------------------------------- TaskLifecycleWorkflow
\* value of `result` while run has not returned
NoResult == RunResult(FALSE, Absent, "<running>")

\* value of a local that holds an activity's result, before it is assigned
NotReturned == [success |-> FALSE, unset |-> TRUE]

\* workflows.py:28-32 (__init__), and run up to its first await: the
\* CreateTask activity is scheduled (workflows.py:39-44)
Init ==
    /\ task_data \in [assignedTo : AssigneeInputs]
    /\ task_id = None
    /\ assigned_user = None
    /\ is_completed = FALSE
    /\ pc = "create"
    /\ attempt = 1
    /\ result = NoResult
    /\ history = <<CreateTaskCmd>>
    /\ signals = [task_completed |-> 0, task_reassigned |-> 0,
                  new_user |-> None]
    /\ create_result = NotReturned
    /\ assign_result = NotReturned
    /\ deadline_check = NotReturned
    /\ notified = NotReturned
    /\ OthersNotStarted

\* mutant: the loop condition ignores the flag (while True)
LoopIgnoresFlag(completed) == TRUE

\* workflows.py:86, the condition of `while not self.is_completed`
LoopContinues(completed) == ~completed

\* workflows.py:86-89 and 76-78: evaluate the loop condition; either start
\* the 1-hour timer of the next iteration, or fall out of the loop, return
\* from _monitor_task_progress and return {"success": True, "task_id": ...}.
\* tid is self.task_id and h the commands issued so far.
MonitorLoopTop(tid, h) ==
    /\ attempt' = 0
    /\ IF LoopContinues(is_completed)
       THEN /\ Timers(h) < MaxTimers
            /\ pc' = "sleep"
            /\ history' = Append(h, TimerCmd)
            /\ result' = result
       ELSE /\ pc' = "done"
            /\ history' = h
            /\ result' = SuccessResult(tid)

\* issue an activity: the run coroutine suspends on it (first attempt)
Issue(p, cmd) ==
    /\ pc' = p
    /\ attempt' = 1
    /\ history' = Append(history, cmd)
    /\ result' = result

\* mutant: the success flag of create_result is not tested
CreateTaskReturnsUnchecked(r) ==
    /\ pc = "create"
    /\ create_result' = r
    /\ task_id' = r.task_id
    /\ IF Truthy(task_data.assignedTo)
       THEN Issue("assign", AssignTaskCmd(task_data.assignedTo))
       ELSE MonitorLoopTop(r.task_id, history)
    /\ UNCHANGED <<notified, task_data, assigned_user, is_completed, signals,
                   assign_result, deadline_check>>

\* workflows.py:39-53, 75-78: CreateTask returned r
CreateTaskReturns(r) ==
    /\ pc = "create"
    /\ create_result' = r
    /\ IF ~r.success
       THEN /\ pc' = "done"
            /\ attempt' = 0
            /\ result' = CreateFailedResult
            /\ UNCHANGED <<task_id, history>>
       ELSE /\ task_id' = r.task_id
            /\ IF Truthy(task_data.assignedTo)
               THEN Issue("assign", AssignTaskCmd(task_data.assignedTo))
               ELSE MonitorLoopTop(r.task_id, history)
    /\ UNCHANGED <<notified, task_data, assigned_user, is_completed, signals,
                   assign_result, deadline_check>>

\* mutant: the success flag of assign_result is not tested
AssignTaskReturnsUnchecked(r) ==
    /\ pc = "assign"
    /\ assign_result' = r
    /\ assigned_user' = task_data.assignedTo
    /\ Issue("notify_assign",
             NotifyCmd(task_data.assignedTo, "task_assignment"))
    /\ UNCHANGED <<notified, task_data, task_id, is_completed, signals, create_result,
                   deadline_check>>

\* workflows.py:54-73, 75-78: AssignTask returned r
AssignTaskReturns(r) ==
    /\ pc = "assign"
    /\ assign_result' = r
    /\ IF r.success
       THEN /\ assigned_user' = task_data.assignedTo
            /\ Issue("notify_assign",
                     NotifyCmd(task_data.assignedTo, "task_assignment"))
       ELSE /\ assigned_user' = assigned_user
            /\ MonitorLoopTop(task_id, history)
    /\ UNCHANGED <<notified, task_data, task_id, is_completed, signals, create_result,
                   deadline_check>>

\* mutant: a task_assignment notification without success ends run
AssignNotificationReturnsChecked(r) ==
    /\ pc = "notify_assign"
    /\ notified' = r
    /\ IF r.success
       THEN MonitorLoopTop(task_id, history)
       ELSE /\ pc' = "done"
            /\ attempt' = 0
            /\ result' = ExceptionResult
            /\ history' = history
    /\ UNCHANGED <<task_data, task_id, assigned_user, is_completed, signals,
                   create_result, assign_result, deadline_check>>

\* mutant: the loop tests the flag at the end of an iteration (do-while),
\* so the first timer is started whatever is_completed says
AssignNotificationReturnsSleepsFirst(r) ==
    /\ pc = "notify_assign"
    /\ notified' = r
    /\ Timers(history) < MaxTimers
    /\ pc' = "sleep"
    /\ attempt' = 0
    /\ history' = Append(history, TimerCmd)
    /\ result' = result
    /\ UNCHANGED <<task_data, task_id, assigned_user, is_completed, signals,
                   create_result, assign_result, deadline_check>>

\* workflows.py:67-78: the task_assignment notification returned r (which
\* run does not read)
AssignNotificationReturns(r) ==
    /\ pc = "notify_assign"
    /\ notified' = r
    /\ MonitorLoopTop(task_id, history)
    /\ UNCHANGED <<task_data, task_id, assigned_user, is_completed, signals,
                   create_result, assign_result, deadline_check>>

\* workflows.py:89-95: the 1-hour timer fired; CheckTaskDeadline is issued
TimerFires ==
    /\ pc = "sleep"
    /\ Issue("check", CheckDeadlineCmd)
    /\ UNCHANGED <<notified, task_data, task_id, assigned_user, is_completed, signals,
                   create_result, assign_result, deadline_check>>

\* mutant: a failed deadline check is repeated at once, without a timer
CheckDeadlineRetriesAtOnce(r) ==
    /\ pc = "check"
    /\ deadline_check' = r
    /\ IF r.success /\ r.is_approaching /\ Truthy(assigned_user)
       THEN Issue("notify_deadline",
                  NotifyCmd(assigned_user, "deadline_warning"))
       ELSE IF r.success /\ r.is_overdue /\ Truthy(assigned_user)
       THEN Issue("notify_deadline",
                  NotifyCmd(assigned_user, "deadline_overdue"))
       ELSE IF ~r.success /\ CountOp(history, "CheckTaskDeadline") <= MaxTimers
       THEN Issue("check", CheckDeadlineCmd)
       ELSE MonitorLoopTop(task_id, history)
    /\ UNCHANGED <<notified, task_data, task_id, assigned_user, is_completed, signals,
                   create_result, assign_result>>

\* mutant: a failed deadline check breaks out of the loop
CheckDeadlineBreaksOnFailure(r) ==
    /\ pc = "check"
    /\ deadline_check' = r
    /\ IF r.success /\ r.is_approaching /\ Truthy(assigned_user)
       THEN Issue("notify_deadline",
                  NotifyCmd(assigned_user, "deadline_warning"))
       ELSE IF r.success /\ r.is_overdue /\ Truthy(assigned_user)
       THEN Issue("notify_deadline",
                  NotifyCmd(assigned_user, "deadline_overdue"))
       ELSE IF ~r.success
       THEN /\ pc' = "done"
            /\ attempt' = 0
            /\ history' = history
            /\ result' = SuccessResult(task_id)
       ELSE MonitorLoopTop(task_id, history)
    /\ UNCHANGED <<notified, task_data, task_id, assigned_user, is_completed, signals,
                   create_result, assign_result>>

\* mutant: the deadline notifications go to the assignee the task was created
\* with, not to the current assigned_user
CheckDeadlineNotifiesFirstAssignee(r) ==
    /\ pc = "check"
    /\ deadline_check' = r
    /\ IF r.success /\ r.is_approaching /\ Truthy(task_data.assignedTo)
       THEN Issue("notify_deadline",
                  NotifyCmd(task_data.assignedTo, "deadline_warning"))
       ELSE IF r.success /\ ~(r.is_approaching /\ Truthy(task_data.assignedTo))
               /\ r.is_overdue /\ Truthy(task_data.assignedTo)
       THEN Issue("notify_deadline",
                  NotifyCmd(task_data.assignedTo, "deadline_overdue"))
       ELSE MonitorLoopTop(task_id, history)
    /\ UNCHANGED <<notified, task_data, task_id, assigned_user, is_completed, signals,
                   create_result, assign_result>>

\* mutant: an overdue task is notified whether or not it has an assignee
CheckDeadlineOverdueUnconditional(r) ==
    /\ pc = "check"
    /\ deadline_check' = r
    /\ IF r.success /\ r.is_approaching /\ Truthy(assigned_user)
       THEN Issue("notify_deadline",
                  NotifyCmd(assigned_user, "deadline_warning"))
       ELSE IF r.success /\ ~(r.is_approaching /\ Truthy(assigned_user))
               /\ r.is_overdue
       THEN Issue("notify_deadline",
                  NotifyCmd(assigned_user, "deadline_overdue"))
       ELSE MonitorLoopTop(task_id, history)
    /\ UNCHANGED <<notified, task_data, task_id, assigned_user, is_completed, signals,
                   create_result, assign_result>>

\* workflows.py:97-116, then back to 86: CheckTaskDeadline returned r
CheckDeadlineReturns(r) ==
    /\ pc = "check"
    /\ deadline_check' = r
    /\ IF r.success /\ r.is_approaching /\ Truthy(assigned_user)
       THEN Issue("notify_deadline",
                  NotifyCmd(assigned_user, "deadline_warning"))
       ELSE IF r.success /\ ~(r.is_approaching /\ Truthy(assigned_user))
               /\ r.is_overdue /\ Truthy(assigned_user)
       THEN Issue("notify_deadline",
                  NotifyCmd(assigned_user, "deadline_overdue"))
       ELSE MonitorLoopTop(task_id, history)
    /\ UNCHANGED <<notified, task_data, task_id, assigned_user, is_completed, signals,
                   create_result, assign_result>>

\* workflows.py:100-116, then back to 86: a deadline notification returned
DeadlineNotificationReturns(r) ==
    /\ pc = "notify_deadline"
    /\ notified' = r
    /\ MonitorLoopTop(task_id, history)
    /\ UNCHANGED <<task_data, task_id, assigned_user, is_completed, signals,
                   create_result, assign_result, deadline_check>>

\* mutant: no try/except inside the loop, an ActivityError raised there
\* reaches the handler of run
ActivityAttemptFailsPropagates(retryable) ==
    /\ pc \in ActivityPcs
    /\ LET max == MaximumAttempts(pc)
           h == Append(history, RaisedCmd(ActivityName(pc)))
       IN  IF retryable /\ (max = Unlimited \/ attempt < max)
           THEN /\ max = Unlimited => attempt < MaxObservedAttempts
                /\ attempt' = attempt + 1
                /\ UNCHANGED <<pc, result, history>>
           ELSE /\ pc' = "done"
                /\ attempt' = 0
                /\ result' = ExceptionResult
                /\ history' = h
    /\ UNCHANGED <<notified, task_data, task_id, assigned_user, is_completed, signals,
                   create_result, assign_result, deadline_check>>

\* mutant: the handler inside the loop repeats a failed deadline check
\* without going through the timer
ActivityAttemptFailsRechecks(retryable) ==
    /\ pc \in ActivityPcs
    /\ LET max == MaximumAttempts(pc)
           h == Append(history, RaisedCmd(ActivityName(pc)))
       IN  IF retryable /\ (max = Unlimited \/ attempt < max)
           THEN /\ max = Unlimited => attempt < MaxObservedAttempts
                /\ attempt' = attempt + 1
                /\ UNCHANGED <<pc, result, history>>
           ELSE IF pc = "check"
                   /\ CountOp(history, "CheckTaskDeadline") <= MaxTimers
           THEN /\ pc' = "check"
                /\ attempt' = 1
                /\ history' = Append(h, CheckDeadlineCmd)
                /\ result' = result
           ELSE IF pc \in MonitorPcs
           THEN MonitorLoopTop(task_id, h)
           ELSE /\ pc' = "done"
                /\ attempt' = 0
                /\ result' = ExceptionResult
                /\ history' = h
    /\ UNCHANGED <<notified, task_data, task_id, assigned_user, is_completed, signals,
                   create_result, assign_result, deadline_check>>

\* One attempt of the activity in flight failed without a result (its
\* start_to_close_timeout elapsed, the worker was lost).  Temporal retries
\* while the call's retry policy allows, otherwise execute_activity raises
\* ActivityError: inside the monitoring loop it is caught at
\* workflows.py:118-121 and the loop continues, elsewhere in run it is
\* caught at workflows.py:80-82 and run returns the error result.
\* retryable = FALSE is a failure Temporal does not retry.
ActivityAttemptFails(retryable) ==
    /\ pc \in ActivityPcs
    /\ LET max == MaximumAttempts(pc)
           h == Append(history, RaisedCmd(ActivityName(pc)))
       IN  IF retryable /\ (max = Unlimited \/ attempt < max)
           THEN /\ max = Unlimited => attempt < MaxObservedAttempts
                /\ attempt' = attempt + 1
                /\ UNCHANGED <<pc, result, history>>
           ELSE IF pc \in MonitorPcs
           THEN MonitorLoopTop(task_id, h)
           ELSE /\ pc' = "done"
                /\ attempt' = 0
                /\ result' = ExceptionResult
                /\ history' = h
    /\ UNCHANGED <<notified, task_data, task_id, assigned_user, is_completed, signals,
                   create_result, assign_result, deadline_check>>

SignalsDelivered == signals.task_completed + signals.task_reassigned

\* mutant: the handler logs the completion and forgets the flag
task_completed_only_logged ==
    /\ pc # "done"
    /\ SignalsDelivered < MaxSignals
    /\ is_completed' = is_completed
    /\ signals' = [signals EXCEPT !.task_completed = @ + 1]
    /\ UNCHANGED <<notified, task_data, task_id, assigned_user, pc, attempt, result,
                   history, create_result, assign_result, deadline_check>>

\* workflows.py:123-127.  A signal reaches only an open workflow; its
\* handler runs while run is suspended and does not resume it.
task_completed_signal ==
    /\ pc # "done"
    /\ SignalsDelivered < MaxSignals
    /\ is_completed' = TRUE
    /\ signals' = [signals EXCEPT !.task_completed = @ + 1]
    /\ UNCHANGED <<notified, task_data, task_id, assigned_user, pc, attempt, result,
                   history, create_result, assign_result, deadline_check>>

\* mutant: a reassignment does not replace an assignee already set
task_reassigned_keeps_assignee(new_user) ==
    /\ pc # "done"
    /\ SignalsDelivered < MaxSignals
    /\ assigned_user' = IF Truthy(assigned_user) THEN assigned_user ELSE new_user
    /\ signals' = [signals EXCEPT !.task_reassigned = @ + 1,
                                  !.new_user = new_user]
    /\ UNCHANGED <<notified, task_data, task_id, is_completed, pc, attempt, result,
                   history, create_result, assign_result, deadline_check>>

\* mutant: a reassignment reopens the task
task_reassigned_reopens(new_user) ==
    /\ pc # "done"
    /\ SignalsDelivered < MaxSignals
    /\ assigned_user' = new_user
    /\ is_completed' = FALSE
    /\ signals' = [signals EXCEPT !.task_reassigned = @ + 1,
                                  !.new_user = new_user]
    /\ UNCHANGED <<notified, task_data, task_id, pc, attempt, result,
                   history, create_result, assign_result, deadline_check>>

\* workflows.py:129-134
task_reassigned_signal(new_user) ==
    /\ pc # "done"
    /\ SignalsDelivered < MaxSignals
    /\ assigned_user' = new_user
    /\ signals' = [signals EXCEPT !.task_reassigned = @ + 1,
                                  !.new_user = new_user]
    /\ UNCHANGED <<notified, task_data, task_id, is_completed, pc, attempt, result,
                   history, create_result, assign_result, deadline_check>>

Next ==
    \/ (\E r \in CreateResults : CreateTaskReturns(r)) /\ UNCHANGED otherVars
    \/ (\E r \in AssignResults : AssignTaskReturns(r)) /\ UNCHANGED otherVars
    \/ (\E r \in NotificationResults(assigned_user) :
            AssignNotificationReturns(r)) /\ UNCHANGED otherVars
    \/ TimerFires /\ UNCHANGED otherVars
    \/ (\E r \in DeadlineResults : CheckDeadlineReturns(r))
          /\ UNCHANGED otherVars
    \/ (\E r \in NotificationResults(assigned_user) :
            DeadlineNotificationReturns(r)) /\ UNCHANGED otherVars
    \/ (\E b \in BOOLEAN : ActivityAttemptFails(b)) /\ UNCHANGED otherVars
    \/ task_completed_signal /\ UNCHANGED otherVars
    \/ (\E u \in NewUsers : task_reassigned_signal(u)) /\ UNCHANGED otherVars

Spec == Init /\ [][Next]_vars

\* The runtime schedules a ready workflow: a due timer fires and an activity
\* that keeps being attempted eventually delivers its result.
ActivityReturns ==
    \/ \E r \in CreateResults : CreateTaskReturns(r)
    \/ \E r \in AssignResults : AssignTaskReturns(r)
    \/ \E r \in NotificationResults(assigned_user) :
          AssignNotificationReturns(r)
    \/ \E r \in DeadlineResults : CheckDeadlineReturns(r)
    \/ \E r \in NotificationResults(assigned_user) :
          DeadlineNotificationReturns(r)

LiveSpec ==
    /\ Spec
    /\ WF_vars(TimerFires /\ UNCHANGED otherVars)
    /\ WF_vars(ActivityReturns /\ UNCHANGED otherVars)

\* service.py:233-237: description.status.name of an execution.  The runtime
\* closes an execution as COMPLETED when run returns a value and as FAILED
\* when run raises.
ClosedStatus(run_raised) == IF run_raised THEN "FAILED" ELSE "COMPLETED"
\* p is the position of run; every run of workflows.py ends in
\* `except Exception: return {...}`, so it returns and never raises
get_workflow_status(p) ==
    IF p = "done" THEN ClosedStatus(FALSE) ELSE "RUNNING"

\* ------------------------------------------------ PeriodicCleanupWorkflow
\* workflows.py:199, 202-207
CleanupTimerCmd == Cmd("Timer", None, "1d")
\* workflows.py:204, the days_old argument
CleanupDaysOld == 30
CleanupCmd ==
    [op |-> "CleanupCompletedTasks", user |-> None, kind |-> "",
     days_old |-> CleanupDaysOld]
\* workflows.py:206 RetryPolicy(maximum_attempts=2)
CleanupMaximumAttempts == 2

\* activities.py:166-183.  raised: an exception inside the try block
cleanup_completed_tasks_activity(raised) ==
    IF raised THEN [success |-> FALSE, cleaned_count |-> -1]
    ELSE [success |-> TRUE, cleaned_count |-> 0]

CleanupResults == {cleanup_completed_tasks_activity(r) : r \in BOOLEAN}

\* workflows.py:194-199: a run just started: it waits on its first timer
CleanupStarted ==
    [pc |-> "sleep", attempt |-> 0, result |-> NoResult,
     history |-> <<CleanupTimerCmd>>, cleanup_result |-> NotReturned]

CleanupTimers == CountOp(cleanup.history, "Timer")

\* workflows.py:199-207: the interval timer fired, the cleanup is issued
CleanupTimerFires ==
    /\ cleanup.pc = "sleep"
    /\ cleanup' = [cleanup EXCEPT !.pc = "cleanup", !.attempt = 1,
                                  !.history = Append(@, CleanupCmd)]
    /\ UNCHANGED <<worker, lifecycleVars, relay, onboarding, registry, service>>

\* mutant: a cleanup that reported failure is repeated at once, without the
\* interval timer
CleanupReturnsRepeatsFailed(r) ==
    /\ cleanup.pc = "cleanup"
    /\ CleanupTimers < MaxCleanupTimers
    /\ IF r.success
       THEN cleanup' = [cleanup EXCEPT !.pc = "sleep", !.attempt = 0,
                                       !.cleanup_result = r,
                                       !.history = Append(@, CleanupTimerCmd)]
       ELSE cleanup' = [cleanup EXCEPT !.pc = "cleanup", !.attempt = 1,
                                       !.cleanup_result = r,
                                       !.history = Append(@, CleanupCmd)]
    /\ UNCHANGED <<worker, lifecycleVars, relay, onboarding, registry, service>>

\* workflows.py:202-209, back to 197-199: the cleanup returned r, which is
\* logged whatever it says; the next interval timer is started
CleanupReturns(r) ==
    /\ cleanup.pc = "cleanup"
    /\ CleanupTimers < MaxCleanupTimers
    /\ cleanup' = [cleanup EXCEPT !.pc = "sleep", !.attempt = 0,
                                  !.cleanup_result = r,
                                  !.history = Append(@, CleanupTimerCmd)]
    /\ UNCHANGED <<worker, lifecycleVars, relay, onboarding, registry, service>>

\* One attempt of the cleanup failed without a result (its 5-minute
\* start_to_close_timeout elapsed, the worker was lost).  Temporal retries
\* up to maximum_attempts=2, then execute_activity raises ActivityError: the
\* try of run encloses the whole loop, so the handler at workflows.py:211-213
\* returns {"success": False, "error": ...} and the execution closes.
CleanupAttemptFails(retryable) ==
    /\ cleanup.pc = "cleanup"
    /\ IF retryable /\ cleanup.attempt < CleanupMaximumAttempts
       THEN /\ cleanup' = [cleanup EXCEPT !.attempt = @ + 1]
            /\ registry' = registry
       ELSE /\ cleanup' =
                [cleanup EXCEPT
                    !.pc = "done", !.result = ExceptionResult,
                    !.history = Append(@, RaisedCmd("CleanupCompletedTasks"))]
            /\ registry' = registry \ {"periodic-cleanup-singleton"}
    /\ UNCHANGED <<worker, lifecycleVars, relay, onboarding, service>>

\* ------------------------------ TemporalService.start_periodic_cleanup_workflow
\* service.py:156
SingletonId == "periodic-cleanup-singleton"

\* Text of the exception client.start_workflow raises when an execution
\* with the id is running: temporalio's WorkflowAlreadyStartedError, whose
\* message is "Workflow execution already started".
AlreadyStartedMessage == <<"Workflow", "execution", "already", "started">>
\* Text of the exception raised when the runtime cannot be reached
UnreachableMessage == <<"Failed", "client", "connect">>

\* str.lower(), word by word
LowerWord(w) ==
    CASE w = "Workflow" -> "workflow"
      [] w = "Failed" -> "failed"
      [] OTHER -> w
Lower(words) == [i \in DOMAIN words |-> LowerWord(words[i])]
\* `sub in text` for texts made of whole words
Contains(words, sub) ==
    \E i \in 1 .. (Len(words) - Len(sub) + 1) :
        SubSeq(words, i, i + Len(sub) - 1) = sub

\* service.py:169: "already exists" in str(e).lower()
\* mutant: the handler swallows whatever start_workflow raised
MatchesAnyMessage(message) == TRUE
IsAlreadyExists(message) == Contains(Lower(message), <<"already", "exists">>)

CallReturned(id) == [pc |-> "returned", value |-> id, error |-> <<>>]
\* the call raised an exception whose text is message
CallRaised(message) == [pc |-> "raised", value |-> "None", error |-> message]

\* service.py:153-154, 27-31 and config.py:31-43: the call begins and gets
\* the client; the first call connects, which raises when the runtime
\* cannot be reached (reachable = FALSE); the exception leaves the call
\* (service.py:176-178)
BeginCall(c, reachable) ==
    /\ service.calls[c].pc = "idle"
    /\ IF service.client \/ reachable
       THEN service' = [service EXCEPT !.client = TRUE,
                                       !.calls[c].pc = "start"]
       ELSE service' = [service EXCEPT !.calls[c] =
                                                CallRaised(UnreachableMessage)]
    /\ UNCHANGED <<worker, lifecycleVars, relay, onboarding, cleanup, registry>>

\* service.py:156-174: client.start_workflow with the singleton id answers.
\* The runtime starts an execution unless one with that id is running, in
\* which case it rejects the request; reachable = FALSE is a transport
\* failure.  An exception whose lowered text holds "already exists" is
\* swallowed and the id returned, any other is raised again.
StartWorkflowAnswers(c, reachable) ==
    /\ service.calls[c].pc = "start"
    /\ IF ~reachable
       THEN /\ service' =
                [service EXCEPT !.calls[c] =
                    IF IsAlreadyExists(UnreachableMessage)
                    THEN CallReturned(SingletonId)
                    ELSE CallRaised(UnreachableMessage)]
            /\ UNCHANGED <<cleanup, registry>>
       ELSE IF SingletonId \in registry
       THEN /\ service' =
                [service EXCEPT !.calls[c] =
                    IF IsAlreadyExists(AlreadyStartedMessage)
                    THEN CallReturned(SingletonId)
                    ELSE CallRaised(AlreadyStartedMessage)]
            /\ UNCHANGED <<cleanup, registry>>
       ELSE /\ registry' = registry \cup {SingletonId}
            /\ cleanup' = CleanupStarted
            /\ service' = [service EXCEPT !.calls[c] = CallReturned(SingletonId)]
    /\ UNCHANGED <<worker, lifecycleVars, relay, onboarding>>

\* the specification at hand leaves the TaskLifecycleWorkflow unstarted
LifecycleNotStarted ==
    /\ task_data = [assignedTo |-> None]
    /\ task_id = None
    /\ assigned_user = None
    /\ is_completed = FALSE
    /\ pc = "none"
    /\ attempt = 0
    /\ result = NoResult
    /\ history = <<>>
    /\ signals = [task_completed |-> 0, task_reassigned |-> 0,
                  new_user |-> None]
    /\ create_result = NotReturned
    /\ assign_result = NotReturned
    /\ deadline_check = NotReturned
    /\ notified = NotReturned

\* the service of a freshly started application; no cleanup execution yet
CleanupInit ==
    /\ LifecycleNotStarted
    /\ relay = NotStarted
    /\ onboarding = NotStarted
    /\ cleanup = NotStarted
    /\ registry = {}
    /\ service = ServiceIdle
    /\ worker = NotStarted

CleanupNext ==
    \/ \E c \in Calls, ok \in BOOLEAN : BeginCall(c, ok)
    \/ \E c \in Calls, ok \in BOOLEAN : StartWorkflowAnswers(c, ok)
    \/ CleanupTimerFires
    \/ \E r \in CleanupResults : CleanupReturns(r)
    \/ \E b \in BOOLEAN : CleanupAttemptFails(b)

CleanupSpec == CleanupInit /\ [][CleanupNext]_vars

\* ------------------------------------------------------ TaskRelayWorkflow
\* workflows.py:151-159
RelayTaskCmd == Cmd("RelayTask", None, "")
\* workflows.py:158 RetryPolicy(maximum_attempts=3)
RelayMaximumAttempts == 3

\* task ids and messages a relay is started with (workflows.py:141-146)
TaskIds == {"task1", "task2"}
Messages == {None, "please take over"}

\* activities.py:75-107.  raised: an exception inside the try block (a store
\* error), which the activity turns into a failure result
relay_task_activity(raised, tid, from, to) ==
    IF raised
    THEN [success |-> FALSE, task_id |-> Absent, from_user |-> Absent,
          to_user |-> Absent]
    ELSE [success |-> TRUE, task_id |-> tid, from_user |-> from,
          to_user |-> to]

RelayResults ==
    {relay_task_activity(r, relay.task_id, relay.from_user, relay.to_user) :
        r \in BOOLEAN}

RelayRunResult(success, tid, from, to, error) ==
    [success |-> success, task_id |-> tid, from_user |-> from,
     to_user |-> to, error |-> error]
\* workflows.py:183
RelaySuccessResult(tid, from, to) == RelayRunResult(TRUE, tid, from, to, Absent)
\* workflows.py:162
RelayFailedResult ==
    RelayRunResult(FALSE, Absent, Absent, Absent, "Failed to relay task")
\* workflows.py:187
RelayExceptionResult ==
    RelayRunResult(FALSE, Absent, Absent, Absent, "ActivityError")
RelayNoResult == RelayRunResult(FALSE, Absent, Absent, Absent, "<running>")

\* workflows.py:141-159: run up to its first await, RelayTask is scheduled.
\* relay_attempts is the number of the attempt whose result RelayTask
\* returned (0: no result yet).
RelayStarted(tid, from, to, message) ==
    [pc |-> "relay", task_id |-> tid, from_user |-> from, to_user |-> to,
     message |-> message, attempt |-> 1, relay_attempts |-> 0,
     relay_result |-> NotReturned, result |-> RelayNoResult,
     history |-> <<RelayTaskCmd>>]

RelayActivityPcs == {"relay", "notify_received", "notify_sent"}
RelayActivityName(p) ==
    IF p = "relay" THEN "RelayTask" ELSE "SendNotification"
RelayAttemptsAllowed(p) ==
    IF p = "relay" THEN RelayMaximumAttempts ELSE Unlimited

\* mutant: the success flag of RelayTask is not read
RelayTaskReturnsUnchecked(r) ==
    /\ relay.pc = "relay"
    /\ relay' = [relay EXCEPT
                    !.relay_result = r, !.relay_attempts = relay.attempt,
                    !.pc = "notify_received", !.attempt = 1,
                    !.history = Append(@, NotifyCmd(relay.to_user,
                                                    "task_relay_received"))]
    /\ UNCHANGED <<worker, lifecycleVars, onboarding, cleanup, registry, service>>

\* workflows.py:151-172: RelayTask returned r; a result without success
\* ends run, otherwise the receiver's notification is issued
RelayTaskReturns(r) ==
    /\ relay.pc = "relay"
    /\ IF ~r.success
       THEN relay' = [relay EXCEPT
                        !.relay_result = r, !.relay_attempts = relay.attempt,
                        !.pc = "done", !.attempt = 0,
                        !.result = RelayFailedResult]
       ELSE relay' = [relay EXCEPT
                        !.relay_result = r, !.relay_attempts = relay.attempt,
                        !.pc = "notify_received", !.attempt = 1,
                        !.history = Append(@, NotifyCmd(relay.to_user,
                                                        "task_relay_received"))]
    /\ UNCHANGED <<worker, lifecycleVars, onboarding, cleanup, registry, service>>

\* workflows.py:166-181: the receiver's notification returned r (not read);
\* the sender's notification is issued
RelayReceivedNotificationReturns(r) ==
    /\ relay.pc = "notify_received"
    /\ relay' = [relay EXCEPT
                    !.pc = "notify_sent", !.attempt = 1,
                    !.history = Append(@, NotifyCmd(relay.from_user,
                                                    "task_relay_sent"))]
    /\ UNCHANGED <<worker, lifecycleVars, onboarding, cleanup, registry, service>>

\* workflows.py:175-183: the sender's notification returned r (not read);
\* run returns the success result
RelaySentNotificationReturns(r) ==
    /\ relay.pc = "notify_sent"
    /\ relay' = [relay EXCEPT
                    !.pc = "done", !.attempt = 0,
                    !.result = RelaySuccessResult(relay.task_id,
                                                  relay.from_user,
                                                  relay.to_user)]
    /\ UNCHANGED <<worker, lifecycleVars, onboarding, cleanup, registry, service>>

\* One attempt of the activity in flight failed without a result.  Temporal
\* retries while the call's retry policy allows (3 attempts for RelayTask,
\* no bound for the notifications), otherwise execute_activity raises
\* ActivityError, which the handler at workflows.py:185-187 turns into the
\* error result.  retryable = FALSE is a failure Temporal does not retry.
RelayAttemptFails(retryable) ==
    /\ relay.pc \in RelayActivityPcs
    /\ LET max == RelayAttemptsAllowed(relay.pc)
       IN  IF retryable /\ (max = Unlimited \/ relay.attempt < max)
           THEN /\ max = Unlimited => relay.attempt < MaxObservedAttempts
                /\ relay' = [relay EXCEPT !.attempt = @ + 1]
           ELSE relay' =
                  [relay EXCEPT
                      !.pc = "done", !.attempt = 0,
                      !.result = RelayExceptionResult,
                      !.history =
                          Append(@, RaisedCmd(RelayActivityName(relay.pc)))]
    /\ UNCHANGED <<worker, lifecycleVars, onboarding, cleanup, registry, service>>

RelayInit ==
    /\ LifecycleNotStarted
    /\ relay \in {RelayStarted(t, f, u, m) :
                    t \in TaskIds, f \in Users, u \in Users, m \in Messages}
    /\ onboarding = NotStarted
    /\ cleanup = NotStarted
    /\ registry = {}
    /\ service = ServiceIdle
    /\ worker = NotStarted

RelayNext ==
    \/ \E r \in RelayResults : RelayTaskReturns(r)
    \/ \E b \in BOOLEAN :
          RelayReceivedNotificationReturns(
              send_notification_activity(b, relay.to_user))
    \/ \E b \in BOOLEAN :
          RelaySentNotificationReturns(
              send_notification_activity(b, relay.from_user))
    \/ \E b \in BOOLEAN : RelayAttemptFails(b)

RelaySpec == RelayInit /\ [][RelayNext]_vars

\* ------------------------------------------------- UserOnboardingWorkflow
\* user_data.get("user_id") (workflows.py:223): None when the key is absent
UserIdInputs == Users \cup {None}
\* workflows.py:235-248: CreateTask for the task assigned to user_id
OnboardingTaskCmd(u) == Cmd("CreateTask", u, "Complete Your Profile")
\* workflows.py:261
OnboardingTimerCmd == Cmd("Timer", None, "24h")
\* workflows.py:247 RetryPolicy(maximum_attempts=3)
OnboardingMaximumAttempts == 3

\* dict.get("task_id") of an activity result (workflows.py:271): None when
\* the result has no such key
GetTaskId(r) == IF r.task_id = Absent THEN None ELSE r.task_id

OnboardingRunResult(success, uid, tid, error) ==
    [success |-> success, user_id |-> uid, onboarding_task_id |-> tid,
     error |-> error]
\* workflows.py:271
OnboardingSuccessResult(uid, task_result) ==
    OnboardingRunResult(TRUE, uid, GetTaskId(task_result), Absent)
\* workflows.py:273-275
OnboardingExceptionResult ==
    OnboardingRunResult(FALSE, Absent, Absent, "ActivityError")
OnboardingNoResult == OnboardingRunResult(FALSE, Absent, Absent, "<running>")

\* workflows.py:220-232: run up to its first await, the welcome notification
\* is scheduled.  create_attempts is the number of CreateTask attempts made
\* when the call ended; task_status is the status of the onboarding task in
\* the store ("none": no such task).
OnboardingStarted(uid) ==
    [pc |-> "welcome", user_id |-> uid, attempt |-> 1, create_attempts |-> 0,
     task_result |-> NotReturned, result |-> OnboardingNoResult,
     task_status |-> "none", history |-> <<NotifyCmd(uid, "welcome")>>]

OnboardingActivityPcs == {"welcome", "create", "notify_task", "reminder"}
OnboardingActivityName(p) ==
    IF p = "create" THEN "CreateTask" ELSE "SendNotification"
OnboardingAttemptsAllowed(p) ==
    IF p = "create" THEN OnboardingMaximumAttempts ELSE Unlimited

\* workflows.py:226-248: the welcome notification returned r (not read);
\* CreateTask is issued
WelcomeNotificationReturns(r) ==
    /\ onboarding.pc = "welcome"
    /\ onboarding' =
          [onboarding EXCEPT
              !.pc = "create", !.attempt = 1,
              !.history = Append(@, OnboardingTaskCmd(onboarding.user_id))]
    /\ UNCHANGED <<worker, lifecycleVars, relay, cleanup, registry, service>>

\* status of the stored task after create_task_activity returned r
StatusAfterCreate(r) ==
    IF r.success /\ r.task_id \notin {None, Absent} THEN "active" ELSE "none"

\* mutant: the onboarding_task notification is sent whatever CreateTask said
OnboardingCreateReturnsUnchecked(r) ==
    /\ onboarding.pc = "create"
    /\ onboarding' =
          [onboarding EXCEPT
              !.task_result = r, !.create_attempts = onboarding.attempt,
              !.task_status = StatusAfterCreate(r),
              !.pc = "notify_task", !.attempt = 1,
              !.history = Append(@, NotifyCmd(onboarding.user_id,
                                              "onboarding_task"))]
    /\ UNCHANGED <<worker, lifecycleVars, relay, cleanup, registry, service>>

\* workflows.py:243-261: CreateTask returned r; on success the
\* onboarding_task notification is issued, otherwise the 24-hour timer
OnboardingCreateReturns(r) ==
    /\ onboarding.pc = "create"
    /\ IF r.success
       THEN onboarding' =
              [onboarding EXCEPT
                  !.task_result = r, !.create_attempts = onboarding.attempt,
                  !.task_status = StatusAfterCreate(r),
                  !.pc = "notify_task", !.attempt = 1,
                  !.history = Append(@, NotifyCmd(onboarding.user_id,
                                                  "onboarding_task"))]
       ELSE onboarding' =
              [onboarding EXCEPT
                  !.task_result = r, !.create_attempts = onboarding.attempt,
                  !.task_status = StatusAfterCreate(r),
                  !.pc = "sleep", !.attempt = 0,
                  !.history = Append(@, OnboardingTimerCmd)]
    /\ UNCHANGED <<worker, lifecycleVars, relay, cleanup, registry, service>>

\* workflows.py:252-261: the onboarding_task notification returned r (not
\* read); the 24-hour timer is started
OnboardingTaskNotificationReturns(r) ==
    /\ onboarding.pc = "notify_task"
    /\ onboarding' = [onboarding EXCEPT
                        !.pc = "sleep", !.attempt = 0,
                        !.history = Append(@, OnboardingTimerCmd)]
    /\ UNCHANGED <<worker, lifecycleVars, relay, cleanup, registry, service>>

\* mutant: the reminder is skipped when the onboarding task is completed
OnboardingTimerFiresChecksProfile ==
    /\ onboarding.pc = "sleep"
    /\ IF onboarding.task_status = "completed"
       THEN onboarding' =
              [onboarding EXCEPT
                  !.pc = "done",
                  !.result = OnboardingSuccessResult(onboarding.user_id,
                                                     onboarding.task_result)]
       ELSE onboarding' =
              [onboarding EXCEPT
                  !.pc = "reminder", !.attempt = 1,
                  !.history = Append(@, NotifyCmd(onboarding.user_id,
                                                  "onboarding_reminder"))]
    /\ UNCHANGED <<worker, lifecycleVars, relay, cleanup, registry, service>>

\* workflows.py:261-269: the 24-hour timer fired; the reminder is issued
OnboardingTimerFires ==
    /\ onboarding.pc = "sleep"
    /\ onboarding' = [onboarding EXCEPT
                        !.pc = "reminder", !.attempt = 1,
                        !.history = Append(@, NotifyCmd(onboarding.user_id,
                                                        "onboarding_reminder"))]
    /\ UNCHANGED <<worker, lifecycleVars, relay, cleanup, registry, service>>

\* workflows.py:263-271: the reminder returned r (not read); run returns
ReminderNotificationReturns(r) ==
    /\ onboarding.pc = "reminder"
    /\ onboarding' =
          [onboarding EXCEPT
              !.pc = "done", !.attempt = 0,
              !.result = OnboardingSuccessResult(onboarding.user_id,
                                                 onboarding.task_result)]
    /\ UNCHANGED <<worker, lifecycleVars, relay, cleanup, registry, service>>

\* mutant: an ActivityError of CreateTask is logged and run goes on to the
\* 24-hour timer
OnboardingAttemptFailsCreateNonFatal(retryable) ==
    /\ onboarding.pc \in OnboardingActivityPcs
    /\ LET max == OnboardingAttemptsAllowed(onboarding.pc)
           h == Append(onboarding.history,
                       RaisedCmd(OnboardingActivityName(onboarding.pc)))
       IN  IF retryable /\ (max = Unlimited \/ onboarding.attempt < max)
           THEN /\ max = Unlimited => onboarding.attempt < MaxObservedAttempts
                /\ onboarding' = [onboarding EXCEPT !.attempt = @ + 1]
           ELSE IF onboarding.pc = "create"
           THEN onboarding' =
                  [onboarding EXCEPT
                      !.create_attempts = onboarding.attempt,
                      !.pc = "sleep", !.attempt = 0,
                      !.history = Append(h, OnboardingTimerCmd)]
           ELSE onboarding' =
                  [onboarding EXCEPT
                      !.pc = "done", !.attempt = 0,
                      !.result = OnboardingExceptionResult, !.history = h]
    /\ UNCHANGED <<worker, lifecycleVars, relay, cleanup, registry, service>>

\* One attempt of the activity in flight failed without a result.  Temporal
\* retries while the call's retry policy allows (3 attempts for CreateTask,
\* no bound for the notifications), otherwise execute_activity raises
\* ActivityError, which the handler at workflows.py:273-275 turns into the
\* error result.  retryable = FALSE is a failure Temporal does not retry.
OnboardingAttemptFails(retryable) ==
    /\ onboarding.pc \in OnboardingActivityPcs
    /\ LET max == OnboardingAttemptsAllowed(onboarding.pc)
           h == Append(onboarding.history,
                       RaisedCmd(OnboardingActivityName(onboarding.pc)))
       IN  IF retryable /\ (max = Unlimited \/ onboarding.attempt < max)
           THEN /\ max = Unlimited => onboarding.attempt < MaxObservedAttempts
                /\ onboarding' = [onboarding EXCEPT !.attempt = @ + 1]
           ELSE onboarding' =
                  [onboarding EXCEPT
                      !.create_attempts =
                          IF onboarding.pc = "create"
                          THEN onboarding.attempt ELSE @,
                      !.pc = "done", !.attempt = 0,
                      !.result = OnboardingExceptionResult, !.history = h]
    /\ UNCHANGED <<worker, lifecycleVars, relay, cleanup, registry, service>>

\* task_service.py:185-224: the user completes the profile task, outside
\* the workflow
OnboardingTaskCompleted ==
    /\ onboarding.task_status = "active"
    /\ onboarding' = [onboarding EXCEPT !.task_status = "completed"]
    /\ UNCHANGED <<worker, lifecycleVars, relay, cleanup, registry, service>>

OnboardingInit ==
    /\ LifecycleNotStarted
    /\ relay = NotStarted
    /\ onboarding \in {OnboardingStarted(u) : u \in UserIdInputs}
    /\ cleanup = NotStarted
    /\ registry = {}
    /\ service = ServiceIdle
    /\ worker = NotStarted

OnboardingNext ==
    \/ \E b \in BOOLEAN :
          WelcomeNotificationReturns(
              send_notification_activity(b, onboarding.user_id))
    \/ \E r \in CreateResults : OnboardingCreateReturns(r)
    \/ \E b \in BOOLEAN :
          OnboardingTaskNotificationReturns(
              send_notification_activity(b, onboarding.user_id))
    \/ OnboardingTimerFires
    \/ \E b \in BOOLEAN :
          ReminderNotificationReturns(
              send_notification_activity(b, onboarding.user_id))
    \/ \E b \in BOOLEAN : OnboardingAttemptFails(b)
    \/ OnboardingTaskCompleted

OnboardingSpec == OnboardingInit /\ [][OnboardingNext]_vars

\* ------------------------------------------ TemporalService: start, signal
\* explicit workflow ids a caller passes to start_task_lifecycle_workflow
LifecycleIds == {"task-lifecycle-a", "task-lifecycle-b"}
\* service.py:52 f"task-lifecycle-{datetime.utcnow().isoformat()}"
GeneratedLifecycleId == "task-lifecycle-<utcnow>"
\* service.py:128 f"user-onboarding-{user_id}"
OnboardingId(u) ==
    CASE u = "alice" -> "user-onboarding-alice"
      [] u = "bob" -> "user-onboarding-bob"
      [] OTHER -> "user-onboarding-None"
\* text of the error the runtime answers a signal for an id without an open
\* execution with
NotFoundMessage == <<"workflow", "not", "found", "for", "ID">>

\* ids of the open executions the runtime knows: the TaskLifecycleWorkflow
\* execution under the id it was started with, the UserOnboardingWorkflow
\* execution under the id made from its user_id
RunningIds ==
    (IF pc \notin {"none", "done"} THEN {service.lifecycle_id} ELSE {})
    \cup (IF onboarding.pc \notin {"none", "done"}
          THEN {OnboardingId(onboarding.user_id)} ELSE {})

Returned(op, wid, value) == Request(op, wid, "returned", value, <<>>)
Raised(op, wid, message) == Request(op, wid, "raised", "None", message)
\* the request is counted and its outcome kept
Answer(request, reachable) ==
    service' = [service EXCEPT !.client = @ \/ reachable,
                               !.requests = @ + 1,
                               !.last = request]

\* workflows.py:28-44: a TaskLifecycleWorkflow execution started with data,
\* suspended on its CreateTask call
LifecycleStarts(data) ==
    /\ task_data' = data
    /\ task_id' = None
    /\ assigned_user' = None
    /\ is_completed' = FALSE
    /\ pc' = "create"
    /\ attempt' = 1
    /\ result' = NoResult
    /\ history' = <<CreateTaskCmd>>
    /\ signals' = [task_completed |-> 0, task_reassigned |-> 0,
                   new_user |-> None]
    /\ create_result' = NotReturned
    /\ assign_result' = NotReturned
    /\ deadline_check' = NotReturned
    /\ notified' = NotReturned

\* service.py:33-67.  wid is the workflow_id argument (None: an id is
\* generated from the clock).  The runtime rejects the start when an
\* execution with the id is running; every exception is logged and raised
\* again.  One TaskLifecycleWorkflow execution is kept at a time.
start_task_lifecycle_workflow(data, wid, reachable) ==
    /\ service.requests < MaxRequests
    /\ LET op == "start_task_lifecycle_workflow"
           id == IF Truthy(wid) THEN wid ELSE GeneratedLifecycleId
       IN  /\ (Truthy(wid) /\ id \in RunningIds) \/ pc \in {"none", "done"}
           /\ IF ~reachable
              THEN /\ Answer(Raised(op, id, UnreachableMessage), reachable)
                   /\ UNCHANGED lifecycleVars
              ELSE IF id \in RunningIds
              THEN /\ Answer(Raised(op, id, AlreadyStartedMessage), reachable)
                   /\ UNCHANGED lifecycleVars
              ELSE /\ LifecycleStarts(data)
                   /\ service' = [service EXCEPT
                                     !.client = TRUE, !.requests = @ + 1,
                                     !.lifecycle_id = id,
                                     !.last = Returned(op, id, id)]
    /\ UNCHANGED <<relay, onboarding, cleanup, registry, worker>>

\* mutant: a start for a user whose onboarding is running replaces it
start_user_onboarding_workflow_restarts(u, reachable) ==
    /\ service.requests < MaxRequests
    /\ LET op == "start_user_onboarding_workflow"
           id == OnboardingId(u)
       IN  /\ id \in RunningIds \/ onboarding.pc \in {"none", "done"}
           /\ IF ~reachable
              THEN /\ Answer(Raised(op, id, UnreachableMessage), reachable)
                   /\ UNCHANGED onboarding
              ELSE /\ onboarding' = OnboardingStarted(u)
                   /\ Answer(Returned(op, id, id), reachable)
    /\ UNCHANGED <<lifecycleVars, relay, cleanup, registry, worker>>

\* service.py:111-143.  The id is made from user_data's user_id, so a start
\* for a user whose onboarding execution is running is rejected by the
\* runtime; every exception is logged and raised again.
start_user_onboarding_workflow(u, reachable) ==
    /\ service.requests < MaxRequests
    /\ LET op == "start_user_onboarding_workflow"
           id == OnboardingId(u)
       IN  /\ id \in RunningIds \/ onboarding.pc \in {"none", "done"}
           /\ IF ~reachable
              THEN /\ Answer(Raised(op, id, UnreachableMessage), reachable)
                   /\ UNCHANGED onboarding
              ELSE IF id \in RunningIds
              THEN /\ Answer(Raised(op, id, AlreadyStartedMessage), reachable)
                   /\ UNCHANGED onboarding
              ELSE /\ onboarding' = OnboardingStarted(u)
                   /\ Answer(Returned(op, id, id), reachable)
    /\ UNCHANGED <<lifecycleVars, relay, cleanup, registry, worker>>

\* the TaskLifecycleWorkflow execution with id wid is open
LifecycleRunning(wid) ==
    pc \notin {"none", "done"} /\ wid = service.lifecycle_id

\* mutant: the failure of the signal is logged and not raised
signal_task_completed_swallows(wid, reachable) ==
    /\ service.requests < MaxRequests
    /\ LET op == "signal_task_completed"
       IN  IF ~reachable
           THEN /\ Answer(Raised(op, wid, UnreachableMessage), reachable)
                /\ UNCHANGED lifecycleVars
           ELSE IF LifecycleRunning(wid)
           THEN /\ task_completed_signal
                /\ Answer(Returned(op, wid, "None"), reachable)
           ELSE /\ Answer(Returned(op, wid, "None"), reachable)
                /\ UNCHANGED lifecycleVars
    /\ UNCHANGED <<relay, onboarding, cleanup, registry, worker>>

\* service.py:180-197: the handle is made without a lookup, the signal
\* request is answered by the runtime: delivered to the open execution with
\* that id, or an error when there is none; every exception is logged and
\* raised again
signal_task_completed(wid, reachable) ==
    /\ service.requests < MaxRequests
    /\ LET op == "signal_task_completed"
       IN  IF ~reachable
           THEN /\ Answer(Raised(op, wid, UnreachableMessage), reachable)
                /\ UNCHANGED lifecycleVars
           ELSE IF LifecycleRunning(wid)
           THEN /\ task_completed_signal
                /\ Answer(Returned(op, wid, "None"), reachable)
           ELSE /\ Answer(Raised(op, wid, NotFoundMessage), reachable)
                /\ UNCHANGED lifecycleVars
    /\ UNCHANGED <<relay, onboarding, cleanup, registry, worker>>

\* service.py:199-217
signal_task_reassigned(wid, new_user, reachable) ==
    /\ service.requests < MaxRequests
    /\ LET op == "signal_task_reassigned"
       IN  IF ~reachable
           THEN /\ Answer(Raised(op, wid, UnreachableMessage), reachable)
                /\ UNCHANGED lifecycleVars
           ELSE IF LifecycleRunning(wid)
           THEN /\ task_reassigned_signal(new_user)
                /\ Answer(Returned(op, wid, "None"), reachable)
           ELSE /\ Answer(Raised(op, wid, NotFoundMessage), reachable)
                /\ UNCHANGED lifecycleVars
    /\ UNCHANGED <<relay, onboarding, cleanup, registry, worker>>

\* a step of run of the TaskLifecycleWorkflow execution
LifecycleRunStep ==
    /\ \/ \E r \in CreateResults : CreateTaskReturns(r)
       \/ \E r \in AssignResults : AssignTaskReturns(r)
       \/ \E r \in NotificationResults(assigned_user) :
             AssignNotificationReturns(r)
       \/ \E b \in BOOLEAN : ActivityAttemptFails(b)
    /\ Len(history') <= MaxInstanceCommands
    /\ UNCHANGED otherVars

\* a step of run of the UserOnboardingWorkflow execution
OnboardingRunStep ==
    /\ \/ \E b \in BOOLEAN :
             WelcomeNotificationReturns(
                 send_notification_activity(b, onboarding.user_id))
       \/ \E r \in CreateResults : OnboardingCreateReturns(r)
       \/ \E b \in BOOLEAN : OnboardingAttemptFails(b)
    /\ Len(onboarding'.history) <= MaxInstanceCommands

ServiceInit ==
    /\ LifecycleNotStarted
    /\ relay = NotStarted
    /\ onboarding = NotStarted
    /\ cleanup = NotStarted
    /\ registry = {}
    /\ service = ServiceIdle
    /\ worker = NotStarted

ServiceNext ==
    \/ \E d \in [assignedTo : AssigneeInputs], w \in LifecycleIds \cup {None},
          ok \in BOOLEAN : start_task_lifecycle_workflow(d, w, ok)
    \/ \E u \in UserIdInputs, ok \in BOOLEAN :
          start_user_onboarding_workflow(u, ok)
    \/ \E w \in LifecycleIds, ok \in BOOLEAN : signal_task_completed(w, ok)
    \/ \E w \in LifecycleIds, u \in NewUsers, ok \in BOOLEAN :
          signal_task_reassigned(w, u, ok)
    \/ LifecycleRunStep
    \/ OnboardingRunStep

ServiceSpec == ServiceInit /\ [][ServiceNext]_vars

\* ------------------------------------------- activities against the store
\* The worker process runs the activities of activities.py against the
\* module-level task_service and workflow_service and the database behind
\* them.  worker holds
\*   db, wdb : task_service.db / workflow_service.db is a Database (not None)
\*   truth_test_raises : bool(Database) raises NotImplementedError (pymongo 4)
\*                       rather than giving True (pymongo 3); a property of
\*                       the installed driver
\*   tasks   : the tasks collection, by id
\*   runs    : activity executions so far
\*   last    : the last activity execution: its input and what came of it

\* a document of the tasks collection; exists = FALSE: no such document
TaskRecord(assignee, relayed_from, handoff) ==
    [exists |-> TRUE, assignedTo |-> assignee, relayedFrom |-> relayed_from,
     estimatedHandoff |-> handoff]
NoTask ==
    [exists |-> FALSE, assignedTo |-> None, relayedFrom |-> None,
     estimatedHandoff |-> None]

\* text of the exceptions the activities can meet
TruthTestError == "NotImplementedError: Database objects do not implement truth value testing"
NoSuchMethodError == "AttributeError: 'WorkflowService' object has no attribute"
ArityError == "TypeError: relay_task() takes 4 positional arguments but 5 were given"
NaiveAwareError == "TypeError: can't subtract offset-naive and offset-aware datetimes"

\* mutant: the activity has no try/except, an exception leaves it
ActivityOutcomeUncaught(raised, message, returned) ==
    [escaped |-> raised, raised |-> raised,
     error |-> IF raised THEN message ELSE Absent, result |-> returned]

\* the try/except frame of every activity (activities.py:20/30-32, 37/47-49,
\* 54/70-72, 77/105-107, 112/120-122, 127/161-163, 168/181-183): an
\* exception is logged and turned into {"success": False, "error": str(e)},
\* the activity returns in every case
ActivityOutcome(raised, message, returned) ==
    [escaped |-> FALSE, raised |-> raised,
     error |-> IF raised THEN message ELSE Absent, result |-> returned]

\* `if not task_service.db: task_service.connect()` (activities.py:22-23 and
\* alike; task_service.py:32-53).  db = FALSE is None, whose truth test is
\* False, so connect() runs: it sets db when the store can be reached and
\* never raises.  The truth test of a Database raises or gives True.
EnsureConnection(w, reachable) ==
    IF w.db THEN [raised |-> w.truth_test_raises, db |-> TRUE]
    ELSE [raised |-> FALSE, db |-> reachable]

\* `workflow_service.db or workflow_service.connect()` (activities.py:63,
\* 85; workflow_service.py:31-52)
WorkflowConnection(w, wreachable) ==
    IF w.wdb THEN [raised |-> w.truth_test_raises, wdb |-> TRUE, value |-> TRUE]
    ELSE [raised |-> FALSE, wdb |-> wreachable, value |-> wreachable]

\* task_service.py:131-159: the document, or None (here NoTask) when the
\* service is not connected, the store fails, or there is no such document
get_task_by_id(w, db, reachable, tid) ==
    IF db /\ reachable /\ w.tasks[tid].exists THEN w.tasks[tid] ELSE NoTask

\* task_service.py:187-226: sets fields of the document; the updated
\* document's id is returned, None when the service is not connected, the
\* store fails or no document was modified
UpdateApplies(w, db, reachable, tid) ==
    db /\ reachable /\ w.tasks[tid].exists

\* activities.py:35-49
update_task_activity(raised, updated) ==
    IF raised THEN [success |-> FALSE]
    ELSE [success |-> Truthy(updated)]

\* number of arguments relay_task_activity passes to task_service.relay_task
\* (activities.py:82) and number it accepts besides self (task_service.py:283)
RelayCallArguments == 4
RelayTaskParameters == 3

LastCall(op, tid, user, reachable, wreachable, before, remaining, outcome) ==
    [op |-> op, task_id |-> tid, user |-> user, reachable |-> reachable,
     wreachable |-> wreachable, before |-> before, remaining |-> remaining,
     outcome |-> outcome]
NoCall ==
    LastCall("none", None, None, FALSE, FALSE, NoTask, 0,
             ActivityOutcome(FALSE, Absent, [success |-> FALSE]))

FreeIds == {t \in TaskIds : ~worker.tasks[t].exists}

\* activities.py:18-32 with task_service.py:73-106
RunCreateTask(assignee, handoff, reachable) ==
    /\ worker.pc = "idle"
    /\ worker.runs < MaxActivityRuns
    /\ FreeIds # {}
    /\ LET pre == EnsureConnection(worker, reachable)
           new == CHOOSE t \in FreeIds : TRUE
           stored == ~pre.raised /\ pre.db /\ reachable
           created == IF stored THEN new ELSE None
       IN  worker' =
             [worker EXCEPT
                !.db = pre.db, !.runs = @ + 1,
                !.tasks = IF stored
                          THEN [@ EXCEPT ![new] =
                                   TaskRecord(assignee, None, handoff)]
                          ELSE @,
                !.last = LastCall("CreateTask", None, assignee, reachable,
                            FALSE, NoTask, 0,
                            ActivityOutcome(pre.raised, TruthTestError,
                                create_task_activity(pre.raised, created)))]
    /\ UNCHANGED <<lifecycleVars, relay, onboarding, cleanup, registry,
                   service>>

\* activities.py:35-49 with task_service.py:187-226; the update sets the
\* document's estimatedHandoff
RunUpdateTask(tid, handoff, reachable) ==
    /\ worker.pc = "idle"
    /\ worker.runs < MaxActivityRuns
    /\ LET pre == EnsureConnection(worker, reachable)
           applies == ~pre.raised /\ UpdateApplies(worker, pre.db, reachable, tid)
           updated == IF applies THEN tid ELSE None
       IN  worker' =
             [worker EXCEPT
                !.db = pre.db, !.runs = @ + 1,
                !.tasks = IF applies
                          THEN [@ EXCEPT ![tid].estimatedHandoff = handoff]
                          ELSE @,
                !.last = LastCall("UpdateTask", tid, None, reachable, FALSE,
                            worker.tasks[tid], 0,
                            ActivityOutcome(pre.raised, TruthTestError,
                                update_task_activity(pre.raised, updated)))]
    /\ UNCHANGED <<lifecycleVars, relay, onboarding, cleanup, registry,
                   service>>

\* activities.py:52-72 with task_service.py:257-268: the task is assigned in
\* the store, then workflow_service.update_user_workflow is called when the
\* workflow service is or gets connected; WorkflowService has no such
\* method (workflow_service.py:17-205), so that call raises AttributeError
RunAssignTask(tid, user, reachable, wreachable) ==
    /\ worker.pc = "idle"
    /\ worker.runs < MaxActivityRuns
    /\ LET pre == EnsureConnection(worker, reachable)
           applies == ~pre.raised /\ UpdateApplies(worker, pre.db, reachable, tid)
           updated == IF applies THEN tid ELSE None
           wf == WorkflowConnection(worker, wreachable)
           raised == pre.raised \/ wf.raised \/ wf.value
           message == IF pre.raised \/ wf.raised THEN TruthTestError
                      ELSE NoSuchMethodError
       IN  worker' =
             [worker EXCEPT
                !.db = pre.db,
                !.wdb = IF pre.raised THEN @ ELSE wf.wdb,
                !.runs = @ + 1,
                !.tasks = IF applies
                          THEN [@ EXCEPT ![tid].assignedTo = user]
                          ELSE @,
                !.last = LastCall("AssignTask", tid, user, reachable,
                            wreachable, worker.tasks[tid], 0,
                            ActivityOutcome(raised, message,
                                assign_task_activity(raised, updated)))]
    /\ UNCHANGED <<lifecycleVars, relay, onboarding, cleanup, registry,
                   service>>

\* activities.py:75-107 with task_service.py:283-300: relay_task is called
\* with one argument more than it accepts, which raises TypeError before
\* anything is written
RunRelayTask(tid, from, to, reachable, wreachable) ==
    /\ worker.pc = "idle"
    /\ worker.runs < MaxActivityRuns
    /\ LET pre == EnsureConnection(worker, reachable)
           arity == ~pre.raised /\ RelayCallArguments # RelayTaskParameters
           applies == ~pre.raised /\ ~arity
                        /\ UpdateApplies(worker, pre.db, reachable, tid)
           wf == WorkflowConnection(worker, wreachable)
           raised == pre.raised \/ arity \/ wf.raised \/ wf.value
           message == IF arity THEN ArityError
                      ELSE IF pre.raised \/ wf.raised THEN TruthTestError
                      ELSE NoSuchMethodError
       IN  worker' =
             [worker EXCEPT
                !.db = pre.db,
                !.wdb = IF pre.raised \/ arity THEN @ ELSE wf.wdb,
                !.runs = @ + 1,
                !.tasks = IF applies
                          THEN [@ EXCEPT ![tid].assignedTo = to,
                                         ![tid].relayedFrom = from]
                          ELSE @,
                !.last = LastCall("RelayTask", tid, to, reachable,
                            wreachable, worker.tasks[tid], 0,
                            ActivityOutcome(raised, message,
                                relay_task_activity(raised, tid, from, to)))]
    /\ UNCHANGED <<lifecycleVars, relay, onboarding, cleanup, registry,
                   service>>

\* activities.py:110-122: logs, touches no store
RunSendNotification(user) ==
    /\ worker.pc = "idle"
    /\ worker.runs < MaxActivityRuns
    /\ worker' =
          [worker EXCEPT
             !.runs = @ + 1,
             !.last = LastCall("SendNotification", None, user, FALSE, FALSE,
                         NoTask, 0,
                         ActivityOutcome(FALSE, Absent,
                             send_notification_activity(FALSE, user)))]
    /\ UNCHANGED <<lifecycleVars, relay, onboarding, cleanup, registry,
                   service>>

\* activities.py:125-163 with task_service.py:131-159; remaining is
\* estimatedHandoff - now in hours
RunCheckTaskDeadline(tid, reachable, remaining) ==
    /\ worker.pc = "idle"
    /\ worker.runs < MaxActivityRuns
    /\ LET pre == EnsureConnection(worker, reachable)
           task == get_task_by_id(worker, pre.db, reachable, tid)
           found == ~pre.raised /\ task.exists
           raised == pre.raised \/ (found /\ task.estimatedHandoff = "aware")
           message ==
               IF pre.raised THEN TruthTestError
               ELSE IF ~found THEN "Task not found"
               ELSE IF task.estimatedHandoff = "aware" THEN NaiveAwareError
               ELSE IF task.estimatedHandoff = "invalid"
               THEN "Invalid deadline format"
               ELSE Absent
           out == check_task_deadline_activity(pre.raised, found,
                                               task.estimatedHandoff,
                                               remaining)
       IN  worker' =
             [worker EXCEPT
                !.db = pre.db, !.runs = @ + 1,
                !.last = LastCall("CheckTaskDeadline", tid, None, reachable,
                            FALSE,
                            IF found THEN task ELSE NoTask, remaining,
                            [ActivityOutcome(raised, message, out)
                                EXCEPT !.error = message])]
    /\ UNCHANGED <<lifecycleVars, relay, onboarding, cleanup, registry,
                   service>>

\* activities.py:166-183
RunCleanupCompletedTasks(reachable) ==
    /\ worker.pc = "idle"
    /\ worker.runs < MaxActivityRuns
    /\ LET pre == EnsureConnection(worker, reachable)
       IN  worker' =
             [worker EXCEPT
                !.db = pre.db, !.runs = @ + 1,
                !.last = LastCall("CleanupCompletedTasks", None, None,
                            reachable, FALSE, NoTask, 0,
                            ActivityOutcome(pre.raised, TruthTestError,
                                cleanup_completed_tasks_activity(pre.raised)))]
    /\ UNCHANGED <<lifecycleVars, relay, onboarding, cleanup, registry,
                   service>>

\* a worker process just started (task_service.py:25-26,
\* workflow_service.py:24-25: no connection), and a store holding task1
WorkerStarted(raises, handoff) ==
    [pc |-> "idle", db |-> FALSE, wdb |-> FALSE,
     truth_test_raises |-> raises,
     tasks |-> [t \in TaskIds |->
                  IF t = "task1" THEN TaskRecord(None, None, handoff)
                  ELSE NoTask],
     runs |-> 0, last |-> NoCall]

ActivityInit ==
    /\ LifecycleNotStarted
    /\ relay = NotStarted
    /\ onboarding = NotStarted
    /\ cleanup = NotStarted
    /\ registry = {}
    /\ service = ServiceIdle
    /\ worker \in {WorkerStarted(b, h) : b \in BOOLEAN, h \in Handoffs}

ActivityNext ==
    \/ \E u \in AssigneeInputs, h \in Handoffs, ok \in BOOLEAN :
          RunCreateTask(u, h, ok)
    \/ \E t \in TaskIds, h \in Handoffs, ok \in BOOLEAN :
          RunUpdateTask(t, h, ok)
    \/ \E t \in TaskIds, u \in Users, ok \in BOOLEAN, wok \in BOOLEAN :
          RunAssignTask(t, u, ok, wok)
    \/ \E t \in TaskIds, f \in Users, u \in Users, ok \in BOOLEAN,
          wok \in BOOLEAN : RunRelayTask(t, f, u, ok, wok)
    \/ \E u \in Users : RunSendNotification(u)
    \/ \E t \in TaskIds, ok \in BOOLEAN, d \in RemainingHours :
          RunCheckTaskDeadline(t, ok, d)
    \/ \E ok \in BOOLEAN : RunCleanupCompletedTasks(ok)

ActivitySpec == ActivityInit /\ [][ActivityNext]_vars

\* ======================================================== properties
Issued(op) == \E i \in DOMAIN history : history[i].op = op
IssuedNotification(kind) ==
    \E i \in DOMAIN history :
        history[i].op = "SendNotification" /\ history[i].kind = kind
\* the step appends a command to history; NewCmd is that command
IssuesCmd == Len(history') = Len(history) + 1
NewCmd == history'[Len(history')]
\* the step delivers a signal of that name
Delivers(name) == signals'[name] = signals[name] + 1

\* C1: a task_completed signal delivered while the instance waits on the
\* 1-hour timer leaves the instance waiting on that timer (the wait is not
\* cut short, nothing is issued, run does not return); and once is_completed
\* is true, the first evaluation of the loop condition (on leaving the
\* deadline check or the deadline notification of the iteration) exits the
\* loop with {success: true, task_id}, and no timer is started any more.
C1_SignalDuringSleep ==
    [][ /\ (pc = "sleep" /\ Delivers("task_completed"))
            => (pc' = "sleep" /\ history' = history /\ result' = result
                /\ is_completed')
        /\ (is_completed /\ pc \in {"check", "notify_deadline"}
              /\ pc' \notin {pc, "notify_deadline"})
            => (pc' = "done" /\ result' = SuccessResult(task_id))
        /\ is_completed => Timers(history') = Timers(history)
      ]_vars

\* task_completed has arrived during a timer wait: the instance still waits
C1_Witness ==
    /\ pc = "sleep"
    /\ is_completed
    /\ signals.task_completed = 1
    /\ Timers(history) = 2

\* C2: is_completed is true only if a task_completed signal has been
\* delivered to the instance, and once true it is never false again.
C2_CompletedOnlyBySignal ==
    /\ [](is_completed => signals.task_completed >= 1)
    /\ [][is_completed => is_completed']_vars

\* completed, and a later reassignment has not reset the flag
C2_Witness ==
    /\ is_completed
    /\ signals.task_completed = 1
    /\ signals.task_reassigned = 1
    /\ signals.new_user = assigned_user
    /\ pc = "check"

\* the step issues a CheckTaskDeadline or a deadline notification
IssuesDeadlineWork ==
    /\ IssuesCmd
    /\ \/ NewCmd.op = "CheckTaskDeadline"
       \/ NewCmd.kind \in {"deadline_warning", "deadline_overdue"}

\* C3 as stated: no CheckTaskDeadline and no deadline notification is issued
\* in a state where is_completed is already true.
C3_NoDeadlineWorkOnceCompleted ==
    [][IssuesDeadlineWork => ~is_completed]_vars

\* C3, amended: the loop reads is_completed at the top of each iteration,
\* before the timer: a timer is started only while is_completed is false,
\* a CheckTaskDeadline is issued exactly when a timer fires (whatever
\* is_completed has become during the wait), a deadline notification only
\* on the result of that check, and once is_completed is true no further
\* iteration begins.
C3_FlagReadBeforeTimer ==
    [][ /\ (IssuesCmd /\ NewCmd.op = "Timer") => ~is_completed'
        /\ (IssuesCmd /\ NewCmd.op = "CheckTaskDeadline") => pc = "sleep"
        /\ (pc = "sleep" /\ pc' # pc) => (IssuesCmd /\ NewCmd = CheckDeadlineCmd)
        /\ (IssuesCmd /\ NewCmd.kind \in {"deadline_warning", "deadline_overdue"})
            => pc = "check"
      ]_vars

\* the deadline check of an iteration is in flight after task_completed
\* arrived, and the flag was false when the iteration's timer was started
C3_Witness ==
    /\ pc = "check"
    /\ attempt = 1
    /\ is_completed
    /\ Timers(history) = 2

\* C4: run returns {success: true, task_id} only with is_completed true;
\* while no task_completed signal has been delivered, an instance that has
\* entered the monitoring loop stays in it, whatever the deadline checks
\* return or raise.
C4_NoExitWhileNotCompleted ==
    /\ (pc = "done" /\ result.success) => is_completed
    /\ (signals.task_completed = 0 /\ Timers(history) >= 1)
        => (pc \in MonitorPcs /\ result = NoResult)

\* still monitoring, a second timer running, after a deadline check raised
C4_Witness ==
    /\ signals.task_completed = 0
    /\ pc = "sleep"
    /\ Timers(history) = 2
    /\ Issued("Raised")
    /\ ~is_completed

\* C5: if task_completed is delivered to an instance whose CreateTask step
\* has succeeded, and no activity call raises, the instance eventually
\* returns {success: true, task_id} (timers fire and activities return:
\* the fairness of LiveSpec).
C5_CompletedTerminates ==
    [](~Issued("Raised"))
        => ((signals.task_completed >= 1 /\ create_result.success)
               ~> (pc = "done" /\ result = SuccessResult(task_id)))

\* terminated with success after going round the loop, no call having raised
C5_Witness ==
    /\ pc = "done"
    /\ result = SuccessResult(task_id)
    /\ create_result.success
    /\ signals.task_completed >= 1
    /\ Timers(history) >= 1
    /\ ~Issued("Raised")

\* C6: if CreateTask reports failure, run ends with a {success: false}
\* result and task_id unset, and issues nothing else: no AssignTask, no
\* notification, no timer, no CheckTaskDeadline.
C6_CreateFailureIsTerminal ==
    (pc # "create" /\ ~create_result.success)
        => /\ pc = "done"
           /\ ~result.success
           /\ task_id = None
           /\ \A i \in DOMAIN history : history[i].op \in {"CreateTask", "Raised"}

\* CreateTask returned success=false and run returned the failure result
C6_Witness ==
    /\ pc = "done"
    /\ result = CreateFailedResult
    /\ history = <<CreateTaskCmd>>
    /\ task_data.assignedTo \in Users

\* C7: with no assignee in the input (assignedTo absent, None or empty) the
\* workflow issues no AssignTask and no task_assignment notification, goes
\* from a successful CreateTask straight into the monitoring loop, and none
\* of its steps sets assigned_user: it is None until a task_reassigned
\* signal is delivered.
C7_NoAssigneeSkipsAssign ==
    task_data.assignedTo \in {None, ""}
        => /\ ~Issued("AssignTask")
           /\ ~IssuedNotification("task_assignment")
           /\ pc \notin {"assign", "notify_assign"}
           /\ create_result.success
                => (pc \in MonitorPcs \/ result = SuccessResult(task_id))
           /\ signals.task_reassigned = 0 => assigned_user = None

\* an instance started with an empty assignee is monitoring, unassigned
C7_Witness ==
    /\ task_data.assignedTo = ""
    /\ pc = "check"
    /\ assigned_user = None
    /\ create_result.success

AssignTaskReturned ==
    /\ pc \notin {"create", "assign"}
    /\ Issued("AssignTask")
    /\ \A i \in DOMAIN history : history[i] # RaisedCmd("AssignTask")

C9_ReassignFrame ==
    [][Delivers("task_reassigned")
         => /\ assigned_user' = signals'.new_user
            /\ UNCHANGED <<is_completed, task_id, pc, attempt, history,
                           result, create_result, assign_result,
                           deadline_check, task_data>>
      ]_vars

\* reassigned to another user than the input's, after completion, while the
\* timer is pending
C9_Witness ==
    /\ signals.task_reassigned = 1
    /\ signals.new_user = "bob"
    /\ assigned_user = "bob"
    /\ task_data.assignedTo = "alice"
    /\ IssuedNotification("task_assignment")
    /\ is_completed
    /\ pc = "sleep"

\* the step ends an iteration's deadline check or deadline notification
\* with a failure: the call raised, or the check returned success=false
IterationStepFails ==
    /\ pc \in {"check", "notify_deadline"}
    /\ pc' # pc
    /\ \/ IssuesCmd /\ NewCmd.op = "Raised"
       \/ pc = "check" /\ ~deadline_check'.success

C11_EveryCallReturnsSingletonId ==
    /\ Cardinality(registry) <= 1
    /\ \A c \in Calls :
          service.calls[c].pc \in {"returned", "raised"} =>
              \/ service.calls[c] = CallReturned(SingletonId)
              \/ service.calls[c].error = UnreachableMessage

\* ---------------------------------------------------------------- C12
\* C12: PeriodicCleanupWorkflow never ends because of a failed cleanup: a
\* CleanupCompletedTasks that fails, by its result or by raising after its 2
\* attempts, leaves the execution open, waiting on the next interval timer.
C12_CleanupFailureNeverTerminal ==
    /\ cleanup.pc # "done"
    /\ cleanup.pc \in {"sleep", "cleanup"} => SingletonId \in registry

\* RelayTask failed: it returned a result without success, or raised
RelayTaskFailed ==
    \/ relay.relay_attempts > 0 /\ ~relay.relay_result.success
    \/ \E i \in DOMAIN relay.history :
          relay.history[i] = RaisedCmd("RelayTask")
RelayNotified(u, kind) ==
    \E i \in DOMAIN relay.history : relay.history[i] = NotifyCmd(u, kind)

\* ---------------------------------------------------------------- C13
\* C13: if RelayTask fails, TaskRelayWorkflow has returned a result with
\* success false and has sent no notification at all.
C13_RelayFailureSendsNothing ==
    RelayTaskFailed =>
        /\ relay.pc = "done"
        /\ relay.result.success = FALSE
        /\ relay.result.error \in {"Failed to relay task", "ActivityError"}
        /\ CountOp(relay.history, "SendNotification") = 0
C13_Witness ==
    /\ relay.pc = "done"
    /\ relay.relay_attempts > 0
    /\ ~relay.relay_result.success
    /\ relay.result = RelayFailedResult

\* ---------------------------------------------------------------- C14
\* C14: a RelayTask whose result reports a store error was attempted 3
\* times before the workflow received that failure; the failure of a first
\* or second attempt is not final.
C14_StoreErrorExhaustsAttempts ==
    (relay.relay_attempts > 0 /\ ~relay.relay_result.success) =>
        relay.relay_attempts = RelayMaximumAttempts

\* ---------------------------------------------------------------- C15
\* C15: once RelayTask has succeeded, a finished run has issued both the
\* task_relay_received and the task_relay_sent notification and returned
\* success true, whatever became of either notification.
C15_NotificationsBestEffort ==
    (relay.pc = "done" /\ relay.relay_attempts > 0
        /\ relay.relay_result.success) =>
        /\ RelayNotified(relay.to_user, "task_relay_received")
        /\ RelayNotified(relay.from_user, "task_relay_sent")
        /\ relay.result =
              RelaySuccessResult(relay.task_id, relay.from_user, relay.to_user)

OnboardingNotifications(kind) ==
    {i \in DOMAIN onboarding.history :
        onboarding.history[i] = NotifyCmd(onboarding.user_id, kind)}
OnboardingCreateIssued ==
    {i \in DOMAIN onboarding.history :
        onboarding.history[i].op = "CreateTask"}
\* CreateTask returned a result (it did not raise)
OnboardingCreateReturned ==
    /\ onboarding.create_attempts > 0
    /\ \A i \in DOMAIN onboarding.history :
          onboarding.history[i] # RaisedCmd("CreateTask")
\* the 24-hour timer was started and has fired
OnboardingTimerElapsed ==
    /\ CountOp(onboarding.history, "Timer") = 1
    /\ onboarding.pc # "sleep"

\* ---------------------------------------------------------------- C16
\* C16: in every run of UserOnboardingWorkflow the welcome notification is
\* the first command, sent before CreateTask whatever CreateTask returns,
\* and the onboarding_task notification has been sent exactly when
\* CreateTask has returned a result that reports success.
C16_WelcomeFirstTaskNoticeOnSuccess ==
    /\ onboarding.history[1] = NotifyCmd(onboarding.user_id, "welcome")
    /\ \A i \in OnboardingCreateIssued : i > 1
    /\ OnboardingNotifications("onboarding_task") # {} <=>
          (OnboardingCreateReturned /\ onboarding.task_result.success)
C16_Witness ==
    /\ OnboardingCreateReturned
    /\ ~onboarding.task_result.success
    /\ onboarding.pc = "done"
    /\ OnboardingNotifications("welcome") = {1}
    /\ OnboardingNotifications("onboarding_task") = {}

\* ---------------------------------------------------------------- C17
\* C17: the onboarding_reminder notification is sent once when the 24-hour
\* timer has elapsed and never before, whether or not CreateTask reported
\* success and whether or not the onboarding task was completed meanwhile.
C17_ReminderOnceAfterTimer ==
    Cardinality(OnboardingNotifications("onboarding_reminder")) =
        IF OnboardingTimerElapsed THEN 1 ELSE 0
C17_Witness ==
    /\ onboarding.pc = "done"
    /\ onboarding.task_status = "completed"
    /\ Cardinality(OnboardingNotifications("onboarding_reminder")) = 1
    /\ onboarding.result.success

\* ---------------------------------------------------------------- C18
\* C18: when the CreateTask call of UserOnboardingWorkflow raises after its
\* attempts, the run has ended with {success: false, error}: no timer is
\* started, no further notification sent, and the result is not a success.
C18_CreateErrorIsFatal ==
    (\E i \in DOMAIN onboarding.history :
        onboarding.history[i] = RaisedCmd("CreateTask")) =>
        /\ onboarding.pc = "done"
        /\ onboarding.result = OnboardingExceptionResult
        /\ onboarding.history[Len(onboarding.history)] = RaisedCmd("CreateTask")
C18_Witness ==
    /\ onboarding.create_attempts = OnboardingMaximumAttempts
    /\ onboarding.history[Len(onboarding.history)] = RaisedCmd("CreateTask")
    /\ onboarding.result = OnboardingExceptionResult

\* the step is the return of CheckTaskDeadline with a result
CheckDeadlineReturned ==
    /\ pc = "check"
    /\ pc' # "check"
    /\ CountOp(history', "Raised") = CountOp(history, "Raised")
\* notifications the step issues
NewNotifications ==
    {history'[i] : i \in
        {j \in DOMAIN history' :
            j > Len(history) /\ history'[j].op = "SendNotification"}}
AssigneeSet == assigned_user \notin {None, ""}

\* ---------------------------------------------------------------- C19
\* C19: in a monitoring iteration whose CheckTaskDeadline result reports
\* is_approaching, a deadline_warning notification is sent if and only if
\* assigned_user is set at that moment, and it goes to that assigned_user;
\* nothing else is notified in that step.
C19_WarningIffAssigneeSet ==
    [][(CheckDeadlineReturned /\ deadline_check'.is_approaching) =>
          NewNotifications =
              IF AssigneeSet
              THEN {NotifyCmd(assigned_user, "deadline_warning")}
              ELSE {}]_vars
C19_Witness ==
    /\ pc = "notify_deadline"
    /\ deadline_check.is_approaching
    /\ signals.task_reassigned > 0
    /\ assigned_user # task_data.assignedTo
    /\ history[Len(history)] = NotifyCmd(assigned_user, "deadline_warning")

\* ---------------------------------------------------------------- C20
\* C20 as stated: every monitoring iteration whose CheckTaskDeadline result
\* reports is_overdue sends a deadline_overdue notification.
C20_OverdueAlwaysNotified ==
    [][(CheckDeadlineReturned /\ deadline_check'.is_overdue) =>
          \E n \in NewNotifications : n.kind = "deadline_overdue"]_vars
\* C20: in a monitoring iteration whose CheckTaskDeadline result reports
\* is_overdue, a deadline_overdue notification is sent if and only if
\* assigned_user is set at that moment, and it goes to that assigned_user;
\* without an assignee the iteration sends nothing.
C20_OverdueIffAssigneeSet ==
    [][(CheckDeadlineReturned /\ deadline_check'.is_overdue) =>
          NewNotifications =
              IF AssigneeSet
              THEN {NotifyCmd(assigned_user, "deadline_overdue")}
              ELSE {}]_vars
C20_Witness ==
    /\ pc = "sleep"
    /\ CountOp(history, "CheckTaskDeadline") = 1
    /\ CountOp(history, "Raised") = 0
    /\ CountOp(history, "SendNotification") = 0
    /\ ~AssigneeSet
    /\ signals.task_reassigned = 0
    /\ deadline_check.is_overdue

\* ---------------------------------------------------------------- C25
\* C25: every activity call a workflow has in flight carries a bounded
\* maximum number of attempts (3), the SendNotification and
\* CheckTaskDeadline calls included, and is never beyond that attempt.
C25_EveryCallBounded ==
    pc \in ActivityPcs =>
        /\ MaximumAttempts(pc) = LifecycleMaximumAttempts
        /\ attempt <= MaximumAttempts(pc)

\* ---------------------------------------------------------------- C26
\* C26: when an exception raised inside run has been turned into the result
\* {success: false, error}, the status of the instance is FAILED, not
\* COMPLETED.
C26_FaultMarksInstanceFailed ==
    (pc = "done" /\ result = ExceptionResult) =>
        get_workflow_status(pc) = "FAILED"

\* the step is the return of the task_assignment notification with a result
\* that reports no success
AssignNotificationFailed ==
    /\ pc = "notify_assign"
    /\ pc' # "notify_assign"
    /\ CountOp(history', "Raised") = CountOp(history, "Raised")
    /\ ~notified'.success

C21_DeadlineFlagsFromRemaining ==
    LET c == worker.last
        r == c.outcome.result
    IN  (c.op = "CheckTaskDeadline" /\ c.before.exists
            /\ c.before.estimatedHandoff \in {"aware", "naive"}) =>
            /\ r.success
            /\ r.is_approaching =
                  (0 < c.remaining /\ c.remaining <= HoursApproaching)
            /\ r.is_overdue = (c.remaining <= 0)
            /\ ~(r.is_approaching /\ r.is_overdue)

\* what CheckTaskDeadline returns for a task found without estimatedHandoff
NoDeadlineResults ==
    {check_task_deadline_activity(FALSE, TRUE, None, d) : d \in RemainingHours}

C23_ActivitiesNeverRaise ==
    LET c == worker.last
    IN  c.op # "none" =>
            /\ ~c.outcome.escaped
            /\ "success" \in DOMAIN c.outcome.result
            /\ c.outcome.raised =>
                  /\ c.outcome.result.success = FALSE
                  /\ c.outcome.error # Absent
C23_Witness ==
    /\ worker.last.op = "AssignTask"
    /\ worker.last.outcome.raised
    /\ worker.last.outcome.error = NoSuchMethodError
    /\ worker.last.outcome.result.success = FALSE

\* ---------------------------------------------------------------- C24
\* C24: CreateTask reports success false whenever the store did not persist
\* the record, and success true only with the id of a record that is now
\* in the store.
C24_CreateSuccessMeansStored ==
    LET c == worker.last
        r == c.outcome.result
    IN  c.op = "CreateTask" =>
            /\ ~c.reachable => ~r.success
            /\ r.success =>
                  /\ r.task_id \in TaskIds
                  /\ worker.tasks[r.task_id].exists

\* ---------------------------------------------------------------- C30
\* C30: for an existing task and a reachable store, the AssignTask activity
\* run with (task_id, user) reports success, and GetTaskById(task_id) then
\* returns a record whose assignedTo is user.
C30_AssignRoundTrip ==
    LET c == worker.last
    IN  (c.op = "AssignTask" /\ c.before.exists /\ c.reachable
            /\ c.wreachable) =>
            /\ c.outcome.result.success
            /\ get_task_by_id(worker, TRUE, TRUE, c.task_id).assignedTo
                  = c.user

\* a start or signal request was made in this step
RequestMade == service'.requests = service.requests + 1
\* no execution's state changed in this step
InstancesUnchanged == UNCHANGED <<lifecycleVars, relay, onboarding, cleanup>>

\* ---------------------------------------------------------------- C28
\* C28: signal_task_completed and signal_task_reassigned addressed to a
\* workflow id without an open execution, with the runtime reachable, raise
\* to the caller (the lookup error of the runtime) and change the state of
\* no execution.
C28_SignalToUnknownRaises ==
    [][(/\ RequestMade
        /\ service'.last.op \in {"signal_task_completed",
                                 "signal_task_reassigned"}
        /\ service'.last.workflow_id \notin RunningIds) =>
          /\ service'.last.outcome = "raised"
          /\ service'.last.error \in {NotFoundMessage, UnreachableMessage}
          /\ InstancesUnchanged]_vars
C28_Witness ==
    /\ service.last.op = "signal_task_completed"
    /\ service.last.outcome = "raised"
    /\ service.last.error = NotFoundMessage
    /\ RunningIds # {}
    /\ service.last.workflow_id \notin RunningIds
    /\ signals.task_completed = 0
    /\ ~is_completed

\* ---------------------------------------------------------------- C29
\* C29: a start of a TaskLifecycleWorkflow with an explicit id, or of a
\* UserOnboardingWorkflow for a user, whose id is the id of an open
\* execution raises to the caller, and the open executions and their state
\* are what they were.
C29_StartCollisionRaises ==
    [][(/\ RequestMade
        /\ service'.last.op \in {"start_task_lifecycle_workflow",
                                 "start_user_onboarding_workflow"}
        /\ service'.last.workflow_id \in RunningIds) =>
          /\ service'.last.outcome = "raised"
          /\ service'.last.error \in {AlreadyStartedMessage,
                                      UnreachableMessage}
          /\ RunningIds' = RunningIds
          /\ InstancesUnchanged]_vars
C29_Witness ==
    /\ service.last.op = "start_user_onboarding_workflow"
    /\ service.last.outcome = "raised"
    /\ service.last.error = AlreadyStartedMessage
    /\ service.last.workflow_id \in RunningIds
    /\ onboarding.pc = "create"
    /\ Len(onboarding.history) = 2

\* the last command issued before command i of h that is a timer or an
\* activity call (a Raised entry records an exception, not a command)
PrecedingCommand(h, i) ==
    LET before == {j \in 1 .. (i - 1) : h[j].op # "Raised"}
    IN  IF before = {} THEN Cmd("none", None, "")
        ELSE h[CHOOSE j \in before : \A k \in before : k <= j]

\* ---------------------------------------------------------------- C31
\* C31: every CheckTaskDeadline call of the TaskLifecycleWorkflow is issued
\* when a 1-hour timer fired and that timer is the command issued just
\* before it: no check precedes the first timer and no two checks follow
\* each other without a timer between them, the exception path of an
\* iteration included.
C31_CheckOnlyAfterTimer ==
    /\ \A i \in DOMAIN history :
          history[i].op = "CheckTaskDeadline" =>
              PrecedingCommand(history, i) = TimerCmd
    /\ pc = "check" => history[Len(history)] = CheckDeadlineCmd
C31_Witness ==
    /\ pc = "check"
    /\ CountOp(history, "CheckTaskDeadline") = 2
    /\ CountOp(history, "Timer") = 2
    /\ history[Len(history) - 2] = RaisedCmd("CheckTaskDeadline")

\* ---------------------------------------------------------------- C32
\* C32: every CleanupCompletedTasks call of the PeriodicCleanupWorkflow
\* carries days_old = 30 and the command issued just before it is the
\* interval timer: no cleanup precedes the first timer and no two cleanups
\* follow each other without a timer between them.
C32_CleanupOnlyAfterTimer ==
    cleanup.pc # "none" =>
        /\ \A i \in DOMAIN cleanup.history :
              cleanup.history[i].op = "CleanupCompletedTasks" =>
                  /\ cleanup.history[i].days_old = 30
                  /\ PrecedingCommand(cleanup.history, i) = CleanupTimerCmd
        /\ cleanup.pc = "cleanup" =>
              cleanup.history[Len(cleanup.history)] = CleanupCmd
C32_Witness ==
    /\ cleanup.pc = "cleanup"
    /\ CountOp(cleanup.history, "CleanupCompletedTasks") = 2
    /\ CleanupTimers = 2
    /\ ~cleanup.cleanup_result.success

\* ---------------------------------------------------------------- C33
\* C33: a finished TaskRelayWorkflow run whose RelayTask succeeded has
\* issued exactly RelayTask, the task_relay_received notification to
\* to_user and the task_relay_sent notification to from_user, in this
\* order and nothing else (no timer, no second pass), and has returned
\* {success: true, task_id, from_user, to_user}.
C33_SuccessfulRelayTwoNotifications ==
    (relay.pc = "done" /\ relay.relay_attempts > 0
        /\ relay.relay_result.success) =>
        /\ relay.history =
              <<RelayTaskCmd,
                NotifyCmd(relay.to_user, "task_relay_received"),
                NotifyCmd(relay.from_user, "task_relay_sent")>>
        /\ relay.result =
              RelaySuccessResult(relay.task_id, relay.from_user, relay.to_user)

\* ---------------------------------------------------------------- C34
\* C34: for an existing task and a reachable store, the RelayTask activity
\* run with (task_id, from_user, to_user, message) reports success, and the
\* task record then has assignedTo = to_user and relayedFrom = from_user.
C34_RelayRoundTrip ==
    LET c == worker.last
    IN  (c.op = "RelayTask" /\ c.before.exists /\ c.reachable
            /\ c.wreachable) =>
            /\ c.outcome.result.success
            /\ worker.tasks[c.task_id].assignedTo = c.outcome.result.to_user
            /\ worker.tasks[c.task_id].relayedFrom
                  = c.outcome.result.from_user

\* ---------------------------------------------------------------- C35
\* C35: once a task_reassigned(new_user) signal has been processed,
\* assigned_user is the new_user of the signal processed last; no step of
\* run overwrites it, wherever run was suspended when the signal arrived.
C35_ReassignmentNeverOverwritten ==
    signals.task_reassigned > 0 => assigned_user = signals.new_user

\* the await points of run before the monitoring loop
PreMonitorPcs == {"create", "assign", "notify_assign"}
\* run takes a step from an await point before the loop, task_completed
\* having been delivered already
StepsCompletedBeforeLoop ==
    /\ is_completed
    /\ pc \in PreMonitorPcs
    /\ <<pc, attempt, history>>' # <<pc, attempt, history>>
\* the step raised ActivityError into run
StepRaised == IssuesCmd /\ NewCmd.op = "Raised"

\* ---------------------------------------------------------------- C36
\* C36 as stated: with task_completed delivered before the monitoring loop
\* and CreateTask successful, run starts no timer, issues no
\* CheckTaskDeadline and its return after step 2 is {success: true,
\* task_id}.
C36_EarlyCompletionReturnsSuccess ==
    [][StepsCompletedBeforeLoop =>
          /\ pc' \in PreMonitorPcs \cup {"done"}
          /\ Timers(history') = 0
          /\ CountOp(history', "CheckTaskDeadline") = 0
          /\ (pc' = "done" /\ create_result'.success)
                => result' = SuccessResult(task_id')
      ]_vars

\* C36, amended: with task_completed delivered before the monitoring loop
\* and CreateTask successful, run starts no timer and issues no
\* CheckTaskDeadline; it ends right after step 2, with {success: true,
\* task_id} when no call of step 2 raised (whatever the results of AssignTask
\* and of the notification say), and with {success: false, error} when the
\* AssignTask call or the notification call raised.
C36_EarlyCompletionSkipsMonitoring ==
    [][StepsCompletedBeforeLoop =>
          /\ pc' \in PreMonitorPcs \cup {"done"}
          /\ Timers(history') = 0
          /\ CountOp(history', "CheckTaskDeadline") = 0
          /\ (pc' = "done" /\ create_result'.success) =>
                IF StepRaised THEN result' = ExceptionResult
                ELSE result' = SuccessResult(task_id')
      ]_vars
C36_Witness ==
    /\ pc = "done"
    /\ is_completed
    /\ signals.task_completed = 1
    /\ result = SuccessResult(task_id)
    /\ history = <<CreateTaskCmd, AssignTaskCmd(task_data.assignedTo),
                   NotifyCmd(task_data.assignedTo, "task_assignment")>>

\* the step issues a deadline_warning or deadline_overdue notification
IssuesDeadlineNotification ==
    /\ IssuesCmd
    /\ NewCmd.op = "SendNotification"
    /\ NewCmd.kind \in {"deadline_warning", "deadline_overdue"}

\* ---------------------------------------------------------------- C37
\* C37: a deadline notification is issued only on the result of the
\* iteration's deadline check, one per check at most, addressed to
\* assigned_user as it is at that moment; when a task_reassigned signal has
\* been processed, that is the new_user of the signal processed last.
C37_DeadlineNotificationToLastAssignee ==
    [][IssuesDeadlineNotification =>
          /\ pc = "check"
          /\ Cardinality(NewNotifications) = 1
          /\ NewCmd.user = assigned_user
          /\ signals.task_reassigned > 0 => NewCmd.user = signals.new_user
      ]_vars

\* ---------------------------------------------------------------- C38
\* C38: when the AssignTask activity reports success false, the assignedTo
\* of the task record is what it was before the call.
C38_FailedAssignLeavesStore ==
    LET c == worker.last
    IN  (c.op = "AssignTask" /\ ~c.outcome.result.success) =>
            worker.tasks[c.task_id].assignedTo = c.before.assignedTo

\* call c of start_periodic_cleanup_workflow ends in this step
CallEnds(c) ==
    /\ service.calls[c].pc \in {"idle", "start"}
    /\ service'.calls[c].pc \in {"returned", "raised"}

\* ---------------------------------------------------------------- C39
\* C39: start_periodic_cleanup_workflow returns the singleton id only when
\* the singleton execution is running once the request was answered; a call
\* whose request failed otherwise (the runtime was unreachable, at connect
\* or at start) raises that failure to the caller.
C39_OtherFailuresRaised ==
    [][\A c \in Calls : CallEnds(c) =>
          /\ service'.calls[c].pc = "returned" =>
                /\ service'.calls[c].value = SingletonId
                /\ SingletonId \in registry'
          /\ service'.calls[c].pc = "raised" =>
                service'.calls[c].error \in
                    {UnreachableMessage, AlreadyStartedMessage}
          /\ SingletonId \notin registry' =>
                service'.calls[c] = CallRaised(UnreachableMessage)
      ]_vars
C39_Witness ==
    /\ service.client
    /\ registry = {}
    /\ cleanup = NotStarted
    /\ service.calls[1] = CallRaised(UnreachableMessage)
    /\ \A c \in Calls \ {1} : service.calls[c].pc = "idle"
====
